---- MODULE Spec2Model ----
(***************************************************************************)
(* CSI frame-matrix extraction and link-statistics pipeline of the         *)
(* PicoScenes CSI collection scripts (csi_inspector.py, complete_csi.py,   *)
(* csi_metadata.py, csi.py, csi_viz.py), as a state machine: one analysis  *)
(* run over a parsed capture, stepped loop by loop.                        *)
(***************************************************************************)
EXTENDS Integers, Sequences, FiniteSets, TLC

(***************************************************************************)
(* Python values.  Every value is a tagged record, so that a missing key,  *)
(* None, a list, a dict, a number and a string can be told apart the way   *)
(* isinstance / `is None` / truthiness tell them apart.  A dict is a       *)
(* record over the key spellings the scripts probe; a key the dict does    *)
(* not hold maps to Absent.  A string is a sequence of characters.         *)
(***************************************************************************)
Absent == [tag |-> "absent"]
None == [tag |-> "none"]
PyList(s) == [tag |-> "list", v |-> s]
PyDict(d) == [tag |-> "dict", v |-> d]
PyInt(n) == [tag |-> "int", v |-> n]
PyStr(s) == [tag |-> "str", v |-> s]

\* d.get(k) on a dict record: None when the key is missing.
Get(d, k) == IF d[k].tag = "absent" THEN None ELSE d[k]

\* `k in d`
HasKey(d, k) == d[k].tag # "absent"

\* isinstance(v, dict)
IsDict(v) == v.tag = "dict"

\* Python truthiness of a value, as `a or b` evaluates it.
Truthy(v) ==
    CASE v.tag = "absent" -> FALSE
      [] v.tag = "none" -> FALSE
      [] v.tag = "list" -> Len(v.v) > 0
      [] v.tag = "str" -> Len(v.v) > 0
      [] v.tag = "int" -> v.v # 0
      [] v.tag = "dict" -> \E k \in DOMAIN v.v : v.v[k].tag # "absent"

\* a or b
PyOr(a, b) == IF Truthy(a) THEN a ELSE b

(***************************************************************************)
(* Characters and MAC strings.                                             *)
(***************************************************************************)
HexDigits == <<"0", "1", "2", "3", "4", "5", "6", "7",
               "8", "9", "A", "B", "C", "D", "E", "F">>

\* f"{b:02X}"
Hex2(b) == <<HexDigits[(b \div 16) + 1], HexDigits[(b % 16) + 1]>>

\* str.upper() on one character (the alphabet of MAC strings).
UpperChar(c) ==
    CASE c = "a" -> "A" [] c = "b" -> "B" [] c = "c" -> "C"
      [] c = "d" -> "D" [] c = "e" -> "E" [] c = "f" -> "F"
      [] OTHER -> c

\* Value of one hexadecimal digit of either case, -1 for any other character.
HexVal(c) ==
    LET u == UpperChar(c)
    IN  IF \E n \in 1..16 : HexDigits[n] = u
        THEN (CHOOSE n \in 1..16 : HexDigits[n] = u) - 1
        ELSE -1

RECURSIVE JoinColon(_)
\* ":".join(parts), parts a sequence of character sequences
JoinColon(parts) ==
    IF Len(parts) = 0 THEN <<>>
    ELSE IF Len(parts) = 1 THEN parts[1]
    ELSE parts[1] \o <<":">> \o JoinColon(Tail(parts))

RECURSIVE LStrip(_)
LStrip(s) == IF Len(s) > 0 /\ s[1] = " " THEN LStrip(Tail(s)) ELSE s

RECURSIVE RStrip(_)
RStrip(s) ==
    IF Len(s) > 0 /\ s[Len(s)] = " " THEN RStrip(SubSeq(s, 1, Len(s) - 1)) ELSE s

\* str.strip()
Strip(s) == RStrip(LStrip(s))

\* str.upper()
Upper(s) == [n \in 1..Len(s) |-> UpperChar(s[n])]

RECURSIVE SplitFirst(_)
\* s.split(":")[0]: the characters before the first colon
SplitFirst(s) ==
    IF Len(s) = 0 \/ s[1] = ":" THEN <<>>
    ELSE <<s[1]>> \o SplitFirst(Tail(s))

RECURSIVE ParseHex(_, _)
\* int(s, 16) over hexadecimal digits; -1 stands for the ValueError of a
\* malformed or empty string.
ParseHex(s, acc) ==
    IF Len(s) = 0 THEN acc
    ELSE IF HexVal(s[1]) < 0 THEN -1
    ELSE ParseHex(Tail(s), acc * 16 + HexVal(s[1]))

IntBase16(s) == IF Len(s) = 0 THEN -1 ELSE ParseHex(s, 0)

\* The two sentinel literals "00:00:00:00:00:00" and "FF:FF:FF:FF:FF:FF".
ZERO_MAC == PyStr(<<"0","0",":","0","0",":","0","0",":","0","0",":","0","0",":","0","0">>)
BCAST_MAC == PyStr(<<"F","F",":","F","F",":","F","F",":","F","F",":","F","F",":","F","F">>)

\* np.array(field, dtype=np.uint8).flatten() of an address field: the bytes,
\* or "error" when numpy cannot build the array.  A scalar gives one element.
U8Array(field) ==
    CASE field.tag = "list" -> [ok |-> TRUE, data |-> [n \in 1..Len(field.v) |-> field.v[n] % 256]]
      [] field.tag = "int" -> [ok |-> TRUE, data |-> <<field.v % 256>>]
      [] OTHER -> [ok |-> FALSE, data |-> <<>>]

mac_to_str(field) ==
    IF field.tag = "none" \/ field.tag = "absent" THEN None
    ELSE LET arr == U8Array(field)
         IN  IF ~arr.ok THEN None
             ELSE IF Len(arr.data) < 6 THEN None
             ELSE PyStr(JoinColon([n \in 1..6 |-> Hex2(arr.data[n] % 256)]))

norm_mac(mac) ==
    IF mac.tag = "none" THEN None ELSE PyStr(Upper(Strip(mac.v)))

InSentinels(mac) == mac = None \/ mac = ZERO_MAC \/ mac = BCAST_MAC

\* Mutant: the multicast bit is not looked at.
is_valid_unicast_NoBitCheck(mac) == ~InSentinels(mac)

is_valid_unicast(mac) ==
    IF InSentinels(mac) THEN FALSE
    ELSE LET first_octet == IntBase16(SplitFirst(mac.v))
         IN  IF first_octet < 0 THEN FALSE
             ELSE (first_octet % 2) = 0

RECURSIVE get_dict_any(_, _)
\* first dict found among keys in frame, else None
get_dict_any(frame, keys) ==
    IF Len(keys) = 0 THEN None
    ELSE IF IsDict(Get(frame, keys[1])) THEN Get(frame, keys[1])
    ELSE get_dict_any(frame, Tail(keys))

(***************************************************************************)
(* Captured frames.  A frame is the dict the capture reader returns; its   *)
(* sub-records are dicts over the key spellings the scripts try.           *)
(***************************************************************************)
Frame(csi, sh, shl, rx) ==
    [CSI |-> csi, StandardHeader |-> sh, standardHeader |-> shl,
     RxSBasic |-> rx, rxSBasic |-> Absent]

\* StandardHeader with the capitalised key spellings
Hdr(a1, a2, a3) ==
    PyDict([Addr1 |-> a1, addr1 |-> Absent, Addr2 |-> a2, addr2 |-> Absent,
            Addr3 |-> a3, addr3 |-> Absent])

\* StandardHeader with the lower-case key spellings
HdrLower(a1, a2, a3) ==
    PyDict([Addr1 |-> Absent, addr1 |-> a1, Addr2 |-> Absent, addr2 |-> a2,
            Addr3 |-> Absent, addr3 |-> a3])

\* CSI block with its metadata: subcarrier indices and tone spacing, each
\* under either key spelling
CsiMeta(mag, ph, idx, idxl, bw, bwl) ==
    PyDict([Mag |-> mag, Phase |-> ph,
            SubcarrierIndex |-> idx, subcarrierIndex |-> idxl,
            SubcarrierBandwidth |-> bw, subcarrierBandwidth |-> bwl])

\* CSI block without metadata
CsiBlock(mag, ph) == CsiMeta(mag, ph, Absent, Absent, Absent, Absent)

RxBasic(ts) ==
    PyDict([Timestamp |-> ts, timestamp |-> Absent,
            SystemTime |-> Absent, systemTime |-> Absent])

(***************************************************************************)
(* numpy arrays of Mag / Phase.  A list value is a 2-D list (a sequence of *)
(* rows); None becomes a 0-d object array holding None, whose size is 1.   *)
(* An array is [dtype, rows]; an object array's element None is written 0. *)
(***************************************************************************)
np_array(v) ==
    IF v.tag = "list" THEN [dtype |-> "num", rows |-> v.v]
    ELSE [dtype |-> "object", rows |-> <<<<0>>>>]

RECURSIVE ConcatRows(_)
ConcatRows(rows) ==
    IF Len(rows) = 0 THEN <<>> ELSE rows[1] \o ConcatRows(Tail(rows))

\* arr.size
np_size(arr) == Len(ConcatRows(arr.rows))

\* arr.flatten(): a 1-D array
flatten(arr) == [dtype |-> arr.dtype, data |-> ConcatRows(arr.rows)]

\* np.vstack of 1-D arrays: the rows when all have one length, else the
\* ValueError numpy raises.
vstack(lst) ==
    IF \A a \in 1..Len(lst) : Len(lst[a].data) = Len(lst[1].data)
    THEN [ok |-> TRUE, rows |-> lst]
    ELSE [ok |-> FALSE, rows |-> <<>>]

(***************************************************************************)
(* The analysis run.                                                       *)
(***************************************************************************)
VARIABLES
    script,               \* which script's analyze_csi / load_csi runs
    frames,               \* ps.raw: every parsed frame, in capture order
    target_tx_mac,        \* csi_inspector's target argument (a string or None)
    use_tx_filter,        \* csi_inspector's use_tx_filter argument
    pc,                   \* position in the run
    i,                    \* index of the frame the current loop is at
    csi_frames_all,       \* CSI-bearing frames (indices into frames)
    all_macs,             \* set of distinct addresses
    tx_primary_firstpair, \* first valid TX/RX pair: transmitter
    rx_primary_firstpair, \* first valid TX/RX pair: receiver
    TARGET,               \* normalised target, or None
    csi_frames_used,      \* frames used after target filtering (indices)
    rx_list_unicast,      \* valid-unicast receivers of the used frames
    rx_primary_bycount,   \* most frequent valid-unicast receiver
    timestamps,           \* timestamps of the used frames
    Amp_list,             \* accepted amplitude vectors
    Phase_list,           \* accepted phase vectors
    row_src,              \* for each accepted row, the frame it came from
    csi_meta,             \* index of the frame whose CSI block gives metadata, 0 = None
    Amp,                  \* stacked amplitude matrix, None until built
    Phase,                \* stacked phase matrix, None until built
    reported_tx_mac,      \* transmitter identity written to the summary
    reported_rx_mac,      \* receiver identity written to the summary
    outputs,              \* report files written
    warnings,             \* non-fatal conditions reported
    outcome,              \* how the run ended
    time_span_sec,        \* capture duration in seconds, None if undefined
    csi_rate,             \* average CSI rate in frames per second, None if undefined
    dt,                   \* inter-arrival deltas in seconds, None if not computed
    fps,                  \* frame rate derived from the deltas, None if undefined
    dt_stats,             \* statistics of the deltas, None for the empty dict
    sub_idx,              \* subcarrier indices read from the metadata block
    num_sub,              \* number of subcarriers reported
    freq_offsets,         \* per-tone frequency offsets, None if not derived
    phase_unwrapped,      \* np.unwrap(Phase, axis=1), None until computed
    summary_timing,       \* the timing lines of the summary
    mean_amp,             \* Amp.mean(axis=1): mean amplitude of each frame
    mean_amp_tone,        \* Amp.mean(axis=0): mean amplitude of each tone
    times,                \* bfi_capture: lines tshark printed for one link
    sta_result            \* bfi_capture: what sta_stats returned

analysisVars ==
        <<script, frames, target_tx_mac, use_tx_filter, pc, i, csi_frames_all,
          all_macs, tx_primary_firstpair, rx_primary_firstpair, TARGET,
          csi_frames_used, rx_list_unicast, rx_primary_bycount, timestamps,
          Amp_list, Phase_list, row_src, csi_meta, Amp, Phase,
          reported_tx_mac, reported_rx_mac, outputs, warnings, outcome,
          time_span_sec, csi_rate, dt, fps, dt_stats, sub_idx, num_sub,
          freq_offsets, phase_unwrapped, summary_timing, mean_amp,
          mean_amp_tone, times, sta_result>>

(***************************************************************************)
(* The scripts that drive processes: bfi_capture.py's main, camera.py,     *)
(* run_bfi_and_camera.py and picoscenes_csi_collection.py.                 *)
(***************************************************************************)
VARIABLES
    bfi_pc,               \* bfi_capture main: position, "none" if not running
    bfi_cmd,              \* index of the next command of set_monitor / restore_managed
    bfi_exit,             \* how bfi_capture ended, "running" until then
    iface,                \* the adapter: under NetworkManager, its type, link up
    set_monitor_cmds,     \* commands of set_monitor run so far
    restore_cmds,         \* commands of restore_managed run so far
    tcpdump,              \* the capture process bfi_capture starts
    bfi_log,              \* what bfi_capture has written to its log, as tokens
    log_exists,           \* the log file exists
    pico_pc,              \* picoscenes_csi_collection main: position
    pico_cmd,             \* index of the next command of disable_wifi / restore_wifi
    pico_exit,            \* how picoscenes_csi_collection ended
    pico_raising,         \* a KeyboardInterrupt is on its way out of collect_csi
    wifi_radio,           \* the Wi-Fi radio is on
    disable_cmds,         \* commands of disable_wifi run so far
    restore_wifi_cmds,    \* commands of restore_wifi run so far
    logger,               \* the PicoScenes process collect_csi starts
    logger_pending,       \* signals sent to it that it has not taken yet
    pico_elapsed,         \* sleeps since the current wait began
    sent,                 \* every signal sent to a child, in order
    cam_pc,               \* camera.py: position, "none" if not running
    STOP_REQUESTED,       \* camera.py's stop flag
    cam_dev,              \* the device main opens next
    frame_idx,            \* frames taken by the capture loop
    rgb_pngs,             \* RGB images saved
    caps_open,            \* capture devices opened and not released
    video,                \* the RGB video: "none", "open", "finalized"
    cam_exit,             \* how camera.py ended
    cam_pending,          \* signals sent to camera.py that it has not taken yet
    to_write,             \* what the writer of the log has still to write
    w_pc,                 \* wait_for_log_pattern: position, "idle" outside a call
    w_patterns,           \* its patterns
    w_timeout,            \* its timeout_s, in sleeps
    w_elapsed,            \* time.time() - start_t, in sleeps
    w_pos,                \* offset of f in the log
    w_result,             \* what it returned
    bfi_pending,          \* signals sent to bfi_capture.py that it has not taken yet
    l_pc,                 \* the launcher's main: "none" until it runs
    f_pc,                 \* interrupt_then_wait / terminate_process_group: position
    f_target,             \* their p: "bfi", "cam", or "none" for None
    f_elapsed,            \* time.time() - t0, in sleeps
    start_line,           \* main's start_line
    stop_line,            \* main's stop_line
    interrupted,          \* Ctrl+C was pressed
    l_path                \* how main leaves its try block

bfiMainVars == <<bfi_pc, bfi_cmd, bfi_exit, iface, set_monitor_cmds,
                 restore_cmds, tcpdump, bfi_pending>>

launchVars == <<l_pc, f_pc, f_target, f_elapsed, start_line, stop_line,
                interrupted, l_path>>

logVars == <<bfi_log, log_exists, to_write>>

watchVars == <<w_pc, w_patterns, w_timeout, w_elapsed, w_pos, w_result>>

picoVars == <<pico_pc, pico_cmd, pico_exit, pico_raising, wifi_radio,
              disable_cmds, restore_wifi_cmds, logger, logger_pending,
              pico_elapsed, sent>>

camVars == <<cam_pc, STOP_REQUESTED, cam_dev, frame_idx, rgb_pngs, caps_open,
             video, cam_exit, cam_pending>>

procVars == <<bfiMainVars, logVars, picoVars, camVars, watchVars, launchVars>>

vars == <<analysisVars, procVars>>

\* Set by the timestamp stage only.
rateVars == <<time_span_sec, csi_rate, dt, fps, dt_stats>>

\* Set by the statistics and summary stage only.
metaVars == <<sub_idx, num_sub, freq_offsets, phase_unwrapped, summary_timing,
              mean_amp, mean_amp_tone>>

\* Used by bfi_capture only.
bfiVars == <<times, sta_result>>

Running == [how |-> "running", what |-> "none"]
Returned(what) == [how |-> "return", what |-> what]
Raised(what) == [how |-> "raise", what |-> what]

\* The scripts that analyse no capture: they configure the adapter and
\* drive other processes.
ProcessScripts == {"bfi_capture_main", "camera", "run_bfi_and_camera",
                   "picoscenes_csi_collection"}

\* The state analyze_csi starts in once the capture is loaded.
Start(sc, fs, tgt, use) ==
    /\ script = sc
    /\ frames = fs
    /\ target_tx_mac = tgt
    /\ use_tx_filter = use
    /\ pc = CASE sc = "bfi_capture" -> "sta_stats"
              [] sc \in ProcessScripts -> "idle"
              [] OTHER -> "filter"
    /\ i = 1
    /\ csi_frames_all = <<>>
    /\ all_macs = {}
    /\ tx_primary_firstpair = None
    /\ rx_primary_firstpair = None
    /\ TARGET = None
    /\ csi_frames_used = <<>>
    /\ rx_list_unicast = <<>>
    /\ rx_primary_bycount = None
    /\ timestamps = <<>>
    /\ Amp_list = <<>>
    /\ Phase_list = <<>>
    /\ row_src = <<>>
    /\ csi_meta = 0
    /\ Amp = None
    /\ Phase = None
    /\ reported_tx_mac = None
    /\ reported_rx_mac = None
    /\ outputs = {}
    /\ warnings = {}
    /\ outcome = Running
    /\ time_span_sec = None
    /\ csi_rate = None
    /\ dt = None
    /\ fps = None
    /\ dt_stats = None
    /\ sub_idx = None
    /\ num_sub = None
    /\ freq_offsets = None
    /\ phase_unwrapped = None
    /\ summary_timing = None
    /\ mean_amp = None
    /\ mean_amp_tone = None
    /\ sta_result = None

(***************************************************************************)
(* Frame filter.                                                           *)
(***************************************************************************)
\* csi.py keeps a frame when the key is there ("CSI" in f); every other
\* script keeps it when the value is a dict (isinstance(f.get("CSI"), dict)).
IsCsiBearing(sc, f) ==
    IF sc = "csi" THEN HasKey(f, "CSI") ELSE IsDict(Get(f, "CSI"))

\* Mutant: every script keeps a frame as soon as the key is there.
CsiFilter_KeyOnly(sc, fs) ==
    SelectSeq([n \in 1..Len(fs) |-> n], LAMBDA n : HasKey(fs[n], "CSI"))

\* [f for f in frames if ...], as the indices of the frames kept
CsiFilter(sc, fs) ==
    SelectSeq([n \in 1..Len(fs) |-> n], LAMBDA n : IsCsiBearing(sc, fs[n]))

\* What the script does on an empty selection: csi_viz raises, the others
\* print and return.
NoCsiOutcome(sc) ==
    IF sc = "csi_viz" THEN Raised("NoCsiFrames") ELSE Returned("NoCsiFrames")

FilterCsi ==
    /\ pc = "filter"
    /\ UNCHANGED <<rateVars, metaVars, bfiVars, procVars>>
    /\ csi_frames_all' = CsiFilter(script, frames)
    /\ IF Len(csi_frames_all') = 0
       THEN /\ outcome' = NoCsiOutcome(script)
            /\ pc' = "done"
            /\ csi_frames_used' = csi_frames_used
       ELSE /\ outcome' = outcome
            /\ pc' = IF script = "csi_viz" THEN "build" ELSE "macs"
            /\ csi_frames_used' =
                 IF script = "csi_viz" THEN csi_frames_all' ELSE csi_frames_used
    /\ UNCHANGED <<script, frames, target_tx_mac, use_tx_filter, i, all_macs,
                   tx_primary_firstpair, rx_primary_firstpair, TARGET,
                   rx_list_unicast, rx_primary_bycount, timestamps, Amp_list,
                   Phase_list, row_src, csi_meta, Amp, Phase, reported_tx_mac,
                   reported_rx_mac, outputs, warnings>>

(***************************************************************************)
(* Address resolver: one iteration of `for f in frames`.                   *)
(***************************************************************************)
\* The frame's StandardHeader: get_dict_any in csi_inspector, `a or b` in
\* the other scripts.
StdHeader(sc, f) ==
    IF sc = "csi_inspector"
    THEN get_dict_any(f, <<"StandardHeader", "standardHeader">>)
    ELSE PyOr(Get(f, "StandardHeader"), Get(f, "standardHeader"))

\* sh.get("Addr1") or sh.get("addr1")
Slot(sh, K, k) == PyOr(Get(sh.v, K), Get(sh.v, k))

\* csi_inspector normalises what it stores; csi.py and complete_csi.py
\* store mac_to_str's result as it is.
Stored(sc, mac) == IF sc = "csi_inspector" THEN norm_mac(mac) ELSE mac

\* The addresses one slot value adds to all_macs.
SlotMacs(sc, addr) ==
    LET mac == mac_to_str(addr)
    IN  IF mac = None THEN {}
        ELSE IF mac = ZERO_MAC \/ mac = BCAST_MAC THEN {}
        ELSE {Stored(sc, mac)}

AddrKeys == {"Addr1", "Addr2", "Addr3", "addr1", "addr2", "addr3"}

\* csi_metadata.py: every key spelling on its own, kept when truthy.
MetadataMacs(sh) ==
    {m \in {norm_mac(mac_to_str(Get(sh.v, k))) : k \in AddrKeys} : Truthy(m)}

\* The addresses frame f adds to all_macs.
FrameMacs(sc, f) ==
    LET sh == StdHeader(sc, f)
    IN  IF ~IsDict(sh) THEN {}
        ELSE IF sc = "csi_metadata" THEN MetadataMacs(sh)
        ELSE SlotMacs(sc, Slot(sh, "Addr1", "addr1"))
             \cup SlotMacs(sc, Slot(sh, "Addr2", "addr2"))
             \cup SlotMacs(sc, Slot(sh, "Addr3", "addr3"))

\* Mutant: the pair is offered whatever its addresses are.
PairOf_NoSentinelCheck(sc, f) ==
    LET sh == StdHeader(sc, f)
    IN  IF ~IsDict(sh) \/ sc = "csi_metadata"
        THEN [ok |-> FALSE, tx |-> None, rx |-> None]
        ELSE LET A1 == Slot(sh, "Addr1", "addr1")
                 A2 == Slot(sh, "Addr2", "addr2")
                 rx_mac == Stored(sc, mac_to_str(A1))
                 tx_mac == Stored(sc, mac_to_str(A2))
             IN  [ok |-> A1 # None /\ A2 # None /\ rx_mac # None /\ tx_mac # None,
                  tx |-> tx_mac, rx |-> rx_mac]

\* The TX/RX pair frame f offers as primary link: [ok, tx, rx].
PairOf(sc, f) ==
    LET sh == StdHeader(sc, f)
    IN  IF ~IsDict(sh) \/ sc = "csi_metadata"
        THEN [ok |-> FALSE, tx |-> None, rx |-> None]
        ELSE LET A1 == Slot(sh, "Addr1", "addr1")
                 A2 == Slot(sh, "Addr2", "addr2")
                 rx_mac == Stored(sc, mac_to_str(A1))
                 tx_mac == Stored(sc, mac_to_str(A2))
             IN  [ok |-> /\ A1 # None
                         /\ A2 # None
                         /\ ~InSentinels(rx_mac)
                         /\ ~InSentinels(tx_mac),
                  tx |-> tx_mac, rx |-> rx_mac]

\* Mutant: a later valid pair replaces the one already chosen.
TakesPair_LastWins(cur_tx, pair) == pair.ok

\* `if tx_primary is None and ...`: the pair is taken only while none is set.
TakesPair(cur_tx, pair) == cur_tx = None /\ pair.ok

\* Where the run goes after the address loop.
AfterMacs(sc) ==
    IF sc \in {"csi_inspector", "csi_metadata"} THEN "target" ELSE "timestamps"

MacStep ==
    /\ pc = "macs"
    /\ UNCHANGED <<rateVars, metaVars, bfiVars, procVars>>
    /\ i <= Len(frames)
    /\ LET f == frames[i]
           pair == PairOf(script, f)
       IN  /\ all_macs' = all_macs \cup FrameMacs(script, f)
           /\ IF TakesPair(tx_primary_firstpair, pair)
              THEN /\ tx_primary_firstpair' = pair.tx
                   /\ rx_primary_firstpair' = pair.rx
              ELSE UNCHANGED <<tx_primary_firstpair, rx_primary_firstpair>>
    /\ IF i = Len(frames)
       THEN /\ pc' = AfterMacs(script)
            /\ i' = 1
            /\ csi_frames_used' =
                 IF AfterMacs(script) = "timestamps" THEN csi_frames_all
                 ELSE csi_frames_used
       ELSE /\ pc' = pc
            /\ i' = i + 1
            /\ csi_frames_used' = csi_frames_used
    /\ UNCHANGED <<script, frames, target_tx_mac, use_tx_filter, csi_frames_all,
                   TARGET, rx_list_unicast, rx_primary_bycount, timestamps,
                   Amp_list, Phase_list, row_src, csi_meta, Amp, Phase,
                   reported_tx_mac, reported_rx_mac, outputs, warnings, outcome>>

(***************************************************************************)
(* Target transmitter filter (csi_inspector.py, csi_metadata.py).          *)
(***************************************************************************)
\* csi_metadata.py's module constant TARGET_TX_MAC = "24:4B:FE:BE:FF:DC"
TARGET_TX_MAC ==
    PyStr(<<"2","4",":","4","B",":","F","E",":","B","E",":","F","F",":","D","C">>)

\* TARGET = norm_mac(target_tx_mac) if target_tx_mac else None; csi_metadata
\* normalises its constant.
TargetOf(sc, tgt) ==
    IF sc = "csi_metadata" THEN norm_mac(TARGET_TX_MAC)
    ELSE IF Truthy(tgt) THEN norm_mac(tgt)
    ELSE None

\* Whether a target is requested at all
\* (`if use_tx_filter and TARGET`; csi_metadata always has one).
TargetRequested(sc, use, T) == sc = "csi_metadata" \/ (use /\ Truthy(T))

\* Mutant: the target counts as observed whatever the capture holds.
TargetObserved_Always(T, macs) == TRUE

\* `TARGET in all_macs`
TargetObserved(T, macs) == T \in macs

\* tx / rx of a frame as the filter loop reads them
FrameTx(sc, f) ==
    LET sh == StdHeader(sc, f)
    IN  IF ~IsDict(sh) THEN None
        ELSE norm_mac(mac_to_str(Slot(sh, "Addr2", "addr2")))

FrameRx(sc, f) ==
    LET sh == StdHeader(sc, f)
    IN  IF ~IsDict(sh) THEN None
        ELSE norm_mac(mac_to_str(Slot(sh, "Addr1", "addr1")))

\* Mutant: every frame that has a header is kept.
KeepsFrame_AnyTx(sc, f, T) == IsDict(StdHeader(sc, f))

\* `if tx == TARGET: csi_frames_used.append(f)`, for frames with a header
KeepsFrame(sc, f, T) == IsDict(StdHeader(sc, f)) /\ FrameTx(sc, f) = T

\* The frames the filter loop keeps.
FilterByTx(sc, fs, all, T) ==
    SelectSeq(all, LAMBDA n : KeepsFrame(sc, fs[n], T))

\* `if is_valid_unicast(rx): rx_list_unicast.append(rx)` over the kept frames
UnicastRx(sc, fs, used) ==
    SelectSeq([k \in 1..Len(used) |-> FrameRx(sc, fs[used[k]])],
              LAMBDA rx : is_valid_unicast(rx))

Count(lst, x) == Cardinality({k \in 1..Len(lst) : lst[k] = x})

FirstPos(lst, x) == CHOOSE k \in 1..Len(lst) : lst[k] = x /\ \A j \in 1..(k - 1) : lst[j] # x

\* Mutant: the receiver tallied first is chosen, whatever its count.
MostCommon_FirstSeen(lst) == IF Len(lst) = 0 THEN None ELSE lst[1]

\* Counter(lst).most_common(1)[0][0] if lst else None: the largest count,
\* and among equal counts the element inserted first.
MostCommon(lst) ==
    IF Len(lst) = 0 THEN None
    ELSE CHOOSE x \in {lst[k] : k \in 1..Len(lst)} :
           \A y \in {lst[k] : k \in 1..Len(lst)} :
              \/ Count(lst, x) > Count(lst, y)
              \/ (Count(lst, x) = Count(lst, y) /\ FirstPos(lst, x) <= FirstPos(lst, y))

TargetFilter ==
    /\ pc = "target"
    /\ UNCHANGED <<rateVars, metaVars, bfiVars, procVars>>
    /\ TARGET' = TargetOf(script, target_tx_mac)
    /\ IF TargetRequested(script, use_tx_filter, TARGET')
       THEN IF TargetObserved(TARGET', all_macs)
            THEN /\ csi_frames_used' = FilterByTx(script, frames, csi_frames_all, TARGET')
                 /\ rx_list_unicast' = UnicastRx(script, frames, csi_frames_used')
                 /\ warnings' = warnings
            ELSE /\ csi_frames_used' = csi_frames_all
                 /\ rx_list_unicast' = <<>>
                 /\ warnings' = warnings \cup {"TargetNotObserved"}
       ELSE /\ csi_frames_used' = csi_frames_all
            /\ rx_list_unicast' = <<>>
            /\ warnings' = warnings \cup {"FilterNotApplied"}
    /\ IF Len(csi_frames_used') = 0
       THEN /\ outcome' = Returned("EmptyAfterAddressFilter")
            /\ pc' = "done"
            /\ rx_primary_bycount' = rx_primary_bycount
       ELSE /\ outcome' = outcome
            /\ pc' = "timestamps"
            /\ rx_primary_bycount' = MostCommon(rx_list_unicast')
    /\ UNCHANGED <<script, frames, target_tx_mac, use_tx_filter, i, csi_frames_all,
                   all_macs, tx_primary_firstpair, rx_primary_firstpair,
                   timestamps, Amp_list, Phase_list, row_src, csi_meta, Amp,
                   Phase, reported_tx_mac, reported_rx_mac, outputs>>

(***************************************************************************)
(* Timestamps of the frames used.                                          *)
(***************************************************************************)
TsKeys == <<"Timestamp", "timestamp", "SystemTime", "systemTime">>

\* np.array(v).flatten() of a timestamp value: a scalar is one element
TsArray(v) == IF v.tag = "list" THEN v.v ELSE <<v.v>>

RECURSIVE TsLookup(_, _)
\* for key in (...): if key in rx_basic: arr = ...; if arr.size: return int(arr[0])
TsLookup(rx, keys) ==
    IF Len(keys) = 0 THEN None
    ELSE IF HasKey(rx.v, keys[1]) /\ Len(TsArray(rx.v[keys[1]])) > 0
         THEN PyInt(TsArray(rx.v[keys[1]])[1])
         ELSE TsLookup(rx, Tail(keys))

get_timestamp(rx_basic) ==
    IF ~IsDict(rx_basic) THEN None ELSE TsLookup(rx_basic, TsKeys)

\* The frame's RxSBasic block
RxBlock(sc, f) ==
    IF sc = "csi_inspector" THEN get_dict_any(f, <<"RxSBasic", "rxSBasic">>)
    ELSE PyOr(Get(f, "RxSBasic"), Get(f, "rxSBasic"))

\* timestamps of the frames in `used` that have one, in order
CollectTimestamps(sc, fs, used) ==
    LET all == [k \in 1..Len(used) |-> get_timestamp(RxBlock(sc, fs[used[k]]))]
        kept == SelectSeq(all, LAMBDA t : t # None)
    IN  [k \in 1..Len(kept) |-> kept[k].v]

\* A float held exactly, as the fraction num / den.
Rat(n, d) == [num |-> n, den |-> d]

\* The 1e6 of `/ 1e6`: microseconds in a second.
MICRO == 1000000

\* x / y on numpy floats, with the sign kept in the numerator; a division by
\* zero gives inf (den = 0) with a RuntimeWarning, not an exception.
FDiv(x, y) ==
    IF y.num = 0 THEN Rat(1, 0)
    ELSE IF y.num > 0 THEN Rat(x.num * y.den, x.den * y.num)
    ELSE Rat(-(x.num * y.den), x.den * (-y.num))

RECURSIVE PyMin(_)
PyMin(ts) ==
    IF Len(ts) = 1 THEN ts[1]
    ELSE LET m == PyMin(Tail(ts)) IN IF ts[1] <= m THEN ts[1] ELSE m

RECURSIVE PyMax(_)
PyMax(ts) ==
    IF Len(ts) = 1 THEN ts[1]
    ELSE LET m == PyMax(Tail(ts)) IN IF ts[1] >= m THEN ts[1] ELSE m

\* Mutant: one timestamp is enough for a time span.
HasSpan_AnyTimestamp(ts) == Len(ts) >= 1

\* `if len(timestamps) >= 2`
HasSpan(ts) == Len(ts) >= 2

\* Scripts that compute a time span and a rate.
RateScripts == {"csi_inspector", "complete_csi", "csi"}

\* time_span_sec = (t_max - t_min) / 1e6
TimeSpan(sc, ts) ==
    IF sc \in RateScripts /\ HasSpan(ts)
    THEN Rat(PyMax(ts) - PyMin(ts), MICRO)
    ELSE None

\* num_csi_used = len(csi_frames_used) (num_csi = len(csi_frames))
RateCount(used, ts) == Len(used)

\* csi_rate = num_csi / time_span_sec, under `if time_span_sec > 0`
CsiRate(n, span) ==
    IF span # None /\ span.num > 0 THEN FDiv(Rat(n, 1), span) ELSE None

RECURSIVE SortInsert(_, _)
SortInsert(x, s) ==
    IF Len(s) = 0 THEN <<x>>
    ELSE IF x <= s[1] THEN <<x>> \o s
    ELSE <<s[1]>> \o SortInsert(x, Tail(s))

RECURSIVE np_sort(_)
np_sort(s) == IF Len(s) = 0 THEN <<>> ELSE SortInsert(s[1], np_sort(Tail(s)))

np_diff(s) == [k \in 1..(Len(s) - 1) |-> s[k + 1] - s[k]]

\* csi_inspector sorts before np.diff, complete_csi does not.
DeltaOrder(sc, ts) == IF sc = "csi_inspector" THEN np_sort(ts) ELSE ts

\* dt = np.diff(... ts_sec ...), where ts_sec = np.array(timestamps) / 1e6;
\* csi.py computes no deltas.
Deltas(sc, ts) ==
    IF sc \in {"csi_inspector", "complete_csi"} /\ HasSpan(ts)
    THEN LET d == np_diff(DeltaOrder(sc, ts))
         IN  PyList([k \in 1..Len(d) |-> Rat(d[k], MICRO)])
    ELSE None

RECURSIVE SumNum(_)
SumNum(d) == IF Len(d) = 0 THEN 0 ELSE d[1].num + SumNum(Tail(d))

RECURSIVE SumSq(_)
SumSq(d) == IF Len(d) = 0 THEN 0 ELSE d[1].num * d[1].num + SumSq(Tail(d))

\* np.mean of deltas that share the denominator 1e6
np_mean(d) == Rat(SumNum(d), MICRO * Len(d))

\* np.median
np_median(d) ==
    LET s == np_sort([k \in 1..Len(d) |-> d[k].num])
        n == Len(s)
    IN  IF n % 2 = 1 THEN Rat(s[(n + 1) \div 2], MICRO)
        ELSE Rat(s[n \div 2] + s[(n \div 2) + 1], 2 * MICRO)

\* np.std, kept as the number under the root: std = sqrt(radicand) / den
np_std(d) ==
    [radicand |-> Len(d) * SumSq(d) - SumNum(d) * SumNum(d), den |-> MICRO * Len(d)]

\* fps = 1.0 / np.mean(dt): guarded by `dt.size > 0 and np.mean(dt) > 0` in
\* csi_inspector, unguarded in complete_csi.
Fps(sc, d) ==
    IF d = None THEN None
    ELSE IF sc = "csi_inspector"
    THEN IF Len(d.v) > 0 /\ np_mean(d.v).num > 0
         THEN FDiv(Rat(1, 1), np_mean(d.v)) ELSE None
    ELSE FDiv(Rat(1, 1), np_mean(d.v))

\* dt_stats, filled under `if dt.size > 0` (csi_inspector only)
DtStats(sc, d) ==
    IF sc = "csi_inspector" /\ d # None /\ Len(d.v) > 0
    THEN [dt_count |-> Len(d.v),
          dt_mean_s |-> np_mean(d.v),
          dt_std_s |-> np_std(d.v),
          dt_min_s |-> Rat(PyMin([k \in 1..Len(d.v) |-> d.v[k].num]), MICRO),
          dt_max_s |-> Rat(PyMax([k \in 1..Len(d.v) |-> d.v[k].num]), MICRO),
          dt_median_s |-> np_median(d.v)]
    ELSE None

\* csi.py writes no timestamp file; csi_inspector saves the plot of the
\* deltas when there are any.
TimestampFiles(sc, d) ==
    (IF sc = "csi" THEN {} ELSE {"timestamps.txt"})
    \cup (IF sc = "csi_inspector" /\ d # None /\ Len(d.v) > 0
          THEN {"inter_arrival_dt.png"} ELSE {})

Timestamps ==
    /\ pc = "timestamps"
    /\ UNCHANGED <<metaVars, bfiVars, procVars>>
    /\ timestamps' = CollectTimestamps(script, frames, csi_frames_used)
    /\ time_span_sec' = TimeSpan(script, timestamps')
    /\ csi_rate' = CsiRate(RateCount(csi_frames_used, timestamps'), time_span_sec')
    /\ dt' = Deltas(script, timestamps')
    /\ fps' = Fps(script, dt')
    /\ dt_stats' = DtStats(script, dt')
    /\ outputs' = outputs \cup TimestampFiles(script, dt')
    /\ pc' = IF script = "csi" THEN "report" ELSE "build"
    /\ i' = 1
    /\ UNCHANGED <<script, frames, target_tx_mac, use_tx_filter, csi_frames_all,
                   all_macs, tx_primary_firstpair, rx_primary_firstpair, TARGET,
                   csi_frames_used, rx_list_unicast, rx_primary_bycount,
                   Amp_list, Phase_list, row_src, csi_meta, Amp, Phase,
                   reported_tx_mac, reported_rx_mac, warnings, outcome>>

(***************************************************************************)
(* Matrix builder: one iteration of `for f in csi_frames`.                 *)
(***************************************************************************)
\* np.array(c.get("Mag")).flatten() and the same for Phase.  Only called on
\* a CSI dict.
MagOf(c) == flatten(np_array(Get(c.v, "Mag")))
PhaseOf(c) == flatten(np_array(Get(c.v, "Phase")))

\* `if mag.size == 0 or ph.size == 0: continue`
EmptyVector(c) ==
    np_size(np_array(Get(c.v, "Mag"))) = 0 \/ np_size(np_array(Get(c.v, "Phase"))) = 0

\* `if Amp_list and mag.size != Amp_list[0].size: continue`
ToneMismatch(lst, c) ==
    Len(lst) > 0 /\ Len(MagOf(c).data) # Len(lst[1].data)

\* Whether the builder appends the frame's vectors, given the amplitude rows
\* accepted so far.
Accepts(lst, f) ==
    LET c == Get(f, "CSI")
    IN  /\ IsDict(c)
        /\ ~EmptyVector(c)
        /\ ~ToneMismatch(lst, c)

\* csi_viz's load_csi keeps no metadata block.
KeepsMeta(sc) == sc # "csi_viz"

BuildStep ==
    /\ pc = "build"
    /\ UNCHANGED <<rateVars, metaVars, bfiVars, procVars>>
    /\ i <= Len(csi_frames_used)
    /\ LET n == csi_frames_used[i]
           f == frames[n]
           c == Get(f, "CSI")
       IN  /\ csi_meta' = IF KeepsMeta(script) /\ IsDict(c) /\ csi_meta = 0
                          THEN n ELSE csi_meta
           /\ IF Accepts(Amp_list, f)
              THEN /\ Amp_list' = Append(Amp_list, MagOf(c))
                   /\ Phase_list' = Append(Phase_list, PhaseOf(c))
                   /\ row_src' = Append(row_src, n)
              ELSE UNCHANGED <<Amp_list, Phase_list, row_src>>
    /\ IF i = Len(csi_frames_used)
       THEN pc' = "stack" /\ i' = 1
       ELSE pc' = pc /\ i' = i + 1
    /\ UNCHANGED <<script, frames, target_tx_mac, use_tx_filter, csi_frames_all,
                   all_macs, tx_primary_firstpair, rx_primary_firstpair, TARGET,
                   csi_frames_used, rx_list_unicast, rx_primary_bycount,
                   timestamps, Amp, Phase, reported_tx_mac, reported_rx_mac,
                   outputs, warnings, outcome>>

\* `if not Amp_list: raise RuntimeError(...)`, then the two np.vstack calls:
\* [outcome, Amp, Phase, next pc].
StackResult(amps, phases) ==
    IF Len(amps) = 0
    THEN [outcome |-> Raised("NoValidMatrixRows"), Amp |-> None, Phase |-> None,
          pc |-> "done"]
    ELSE IF ~vstack(phases).ok
    THEN [outcome |-> Raised("ValueError"), Amp |-> PyList(vstack(amps).rows),
          Phase |-> None, pc |-> "done"]
    ELSE [outcome |-> Running, Amp |-> PyList(vstack(amps).rows),
          Phase |-> PyList(vstack(phases).rows), pc |-> "report"]

Stack ==
    /\ pc = "stack"
    /\ UNCHANGED <<rateVars, metaVars, bfiVars, procVars>>
    /\ LET r == StackResult(Amp_list, Phase_list)
       IN  /\ outcome' = r.outcome
           /\ Amp' = r.Amp
           /\ Phase' = r.Phase
           /\ pc' = r.pc
    /\ UNCHANGED <<script, frames, target_tx_mac, use_tx_filter, i, csi_frames_all,
                   all_macs, tx_primary_firstpair, rx_primary_firstpair, TARGET,
                   csi_frames_used, rx_list_unicast, rx_primary_bycount,
                   timestamps, Amp_list, Phase_list, row_src, csi_meta,
                   reported_tx_mac, reported_rx_mac, outputs, warnings>>

(***************************************************************************)
(* Statistics and summary.                                                 *)
(***************************************************************************)
\* A matrix numpy holds as dtype=object (a row came from np.array(None)):
\* Amp.mean / Phase.mean raise TypeError on it.
HasObjectRow(m) == \E r \in 1..Len(m.v) : m.v[r].dtype = "object"

\* Transmitter written to the summary.
ReportedTx(sc, use, T, macs, tx_first) ==
    CASE sc = "csi_inspector" ->
           IF use /\ Truthy(T) /\ T \in macs THEN T ELSE tx_first
      [] sc = "csi_metadata" -> T
      [] OTHER -> tx_first

\* Receiver written to the summary.
ReportedRx(sc, rx_bycount, rx_first) ==
    CASE sc = "csi_inspector" -> PyOr(rx_bycount, rx_first)
      [] sc = "csi_metadata" -> rx_bycount
      [] OTHER -> rx_first

RECURSIVE get_any(_, _, _)
\* get_any: the value under the first key present in d, else the default
get_any(d, keys, default) ==
    IF ~IsDict(d) \/ Len(keys) = 0 THEN default
    ELSE IF HasKey(d.v, keys[1]) THEN d.v[keys[1]]
    ELSE get_any(d, Tail(keys), default)

\* to_float_safe: None for None and for an empty array, else the first value
to_float_safe(x) ==
    CASE x.tag = "int" -> x
      [] x.tag = "list" /\ Len(x.v) > 0 -> PyInt(x.v[1])
      [] OTHER -> None

\* np.array(v).flatten() of an index list: a list gives its values, a number
\* one value, None a 0-d object array of size 1 (its element written 0).
IdxArray(v) ==
    CASE v.tag = "list" -> [dtype |-> "num", data |-> v.v]
      [] v.tag = "int" -> [dtype |-> "num", data |-> <<v.v>>]
      [] OTHER -> [dtype |-> "object", data |-> <<0>>]

IdxKeys == <<"SubcarrierIndex", "subcarrierIndex">>
BwKeys == <<"SubcarrierBandwidth", "subcarrierBandwidth">>

\* The CSI block the metadata is read from: csi_meta, or csi_frames[0]["CSI"]
\* in csi.py; csi_viz's load_csi reads none.
MetaBlock(sc, fs, all, meta) ==
    CASE sc = "csi" -> fs[all[1]]["CSI"]
      [] sc = "csi_viz" -> None
      [] OTHER -> IF meta = 0 THEN None ELSE Get(fs[meta], "CSI")

\* sub_idx: the subcarrier indices, [] when there are none
SubIdx(sc, c) ==
    CASE sc = "csi_inspector" -> IdxArray(get_any(c, IdxKeys, PyList(<<>>)))
      [] sc = "csi" ->
           IdxArray(PyOr(PyOr(Get(c.v, "SubcarrierIndex"), Get(c.v, "subcarrierIndex")),
                         PyList(<<>>)))
      [] OTHER -> IdxArray(PyOr(Get(c.v, "SubcarrierIndex"), PyList(<<>>)))

\* num_sub = sub_idx.size if sub_idx.size else K; csi.py falls back to
\* NumTones, which these blocks do not carry.
NumSub(sc, idx, K) ==
    IF Len(idx.data) > 0 THEN PyInt(Len(idx.data))
    ELSE IF sc = "csi" THEN None ELSE PyInt(K)

\* raw_idx of the frequency mapping
RawIdx(sc, c) ==
    IF sc = "csi_inspector" THEN get_any(c, IdxKeys, None)
    ELSE Get(c.v, "SubcarrierIndex")

\* `if delta_f is None or delta_f == 0.0: raise ValueError` is in
\* csi_inspector only.
ZeroSpacingSkips(sc) == sc = "csi_inspector"

\* delta_f: to_float_safe(get_any(..., default=0.0)) in csi_inspector,
\* float(csi_meta.get("SubcarrierBandwidth", 0.0)) in complete_csi, where
\* float(None) and float of a list raise TypeError.  [ok, v]
DeltaF(sc, c) ==
    IF sc = "csi_inspector"
    THEN LET d == to_float_safe(get_any(c, BwKeys, PyInt(0)))
         IN  IF ZeroSpacingSkips(sc) /\ (d = None \/ d = PyInt(0))
             THEN [ok |-> FALSE, v |-> 0]
             ELSE [ok |-> TRUE, v |-> IF d = None THEN 0 ELSE d.v]
    ELSE LET d == IF HasKey(c.v, "SubcarrierBandwidth")
                  THEN c.v["SubcarrierBandwidth"] ELSE PyInt(0)
         IN  IF d.tag = "int" THEN [ok |-> TRUE, v |-> d.v]
             ELSE [ok |-> FALSE, v |-> 0]

\* The try block of the frequency mapping: the offsets sub_idx * delta_f, or
\* None when an exception skips the mapping.
FreqOffsets(sc, c) ==
    LET raw == RawIdx(sc, c)
        arr == IdxArray(raw)
        df == DeltaF(sc, c)
    IN  IF raw = None \/ arr.dtype = "object" \/ Len(arr.data) = 0 \/ ~df.ok
        THEN None
        ELSE PyList([k \in 1..Len(arr.data) |-> arr.data[k] * df.v])

\* Scripts that map tones to frequency offsets.
FreqScripts == {"csi_inspector", "complete_csi"}

FreqFiles(sc, offs) ==
    IF sc \in FreqScripts /\ offs # None
    THEN {"frequency_map.csv", "freq_amp_plot.png"} ELSE {}

\* "Frequency mapping skipped: ..." is printed when the try block raised.
FreqWarnings(sc, offs) ==
    IF sc \in FreqScripts /\ offs = None THEN {"FrequencyMappingSkipped"} ELSE {}

NA == PyStr(<<"N", "/", "A">>)

\* The timing lines of the summary: a value, or "N/A" for None.  csi.py
\* prints the rate only when it has one and no fps; csi_metadata and csi_viz
\* report no timing.
SummaryTiming(sc, span, rate, f) ==
    CASE sc \in {"csi_inspector", "complete_csi"} ->
           [duration |-> IF span = None THEN NA ELSE span,
            rate |-> IF rate = None THEN NA ELSE rate,
            fps |-> IF f = None THEN NA ELSE f]
      [] sc = "csi" ->
           [duration |-> IF span = None THEN NA ELSE span,
            rate |-> IF span # None /\ rate # None THEN rate ELSE Absent,
            fps |-> Absent]
      [] OTHER -> None

\* Files the script writes once its statistics are computed.
SummaryFiles(sc) ==
    CASE sc = "csi_inspector" -> {"frame_stats.csv", "csi_summary.txt"}
      [] sc \in {"complete_csi", "csi_metadata"} -> {"csi_summary.txt"}
      [] OTHER -> {}

\* How the rest of the script ends: csi.py reads csi_frames[0]["CSI"].get,
\* csi_viz's load_csi returns the matrices, the others take means of both
\* matrices before they write the summary.
ReportOutcome(sc, fs, all, amp, phase) ==
    CASE sc = "csi" ->
           IF IsDict(fs[all[1]]["CSI"]) THEN Returned("Success")
           ELSE Raised("AttributeError")
      [] sc = "csi_viz" -> Returned("Success")
      [] OTHER ->
           IF HasObjectRow(amp) \/ HasObjectRow(phase) THEN Raised("TypeError")
           ELSE Returned("Success")

\* Phases are held as whole numbers of steps of pi / PhaseRes, so that pi and
\* the period 2 pi are exact.
PhaseRes == 2
PI == PhaseRes
Period == 2 * PI

np_abs(x) == IF x < 0 THEN -x ELSE x

\* ddmod = mod(dd + pi, 2 pi) - pi, and pi instead of -pi where dd > 0
DdMod(dd) ==
    LET m == ((dd + PI) % Period) - PI
    IN  IF m = -PI /\ dd > 0 THEN PI ELSE m

\* ph_correct = ddmod - dd, and 0 where abs(dd) < pi
PhCorrect(dd) == IF np_abs(dd) < PI THEN 0 ELSE DdMod(dd) - dd

\* ph_correct.cumsum() at tone k (k >= 2), over dd = diff(p)
RECURSIVE CumCorrect(_, _)
CumCorrect(p, k) ==
    IF k < 2 THEN 0 ELSE CumCorrect(p, k - 1) + PhCorrect(p[k] - p[k - 1])

\* Mutant: each tone takes its own correction, not the running sum.
np_unwrap_NoCumsum(p) ==
    [k \in 1..Len(p) |->
        IF k = 1 THEN p[1] ELSE p[k] + PhCorrect(p[k] - p[k - 1])]

\* np.unwrap of one row: up[0] = p[0], up[1:] = p[1:] + ph_correct.cumsum()
np_unwrap(p) ==
    [k \in 1..Len(p) |-> IF k = 1 THEN p[1] ELSE p[k] + CumCorrect(p, k)]

\* np.unwrap(Phase, axis=1): every row of the matrix, along the tones
UnwrapRows(m) ==
    PyList([r \in 1..Len(m.v) |->
               [dtype |-> m.v[r].dtype, data |-> np_unwrap(m.v[r].data)]])

\* csi_inspector alone unwraps the phase and plots its mean per frame.
UnwrapScripts == {"csi_inspector"}

UnwrapFiles(sc) ==
    IF sc \in UnwrapScripts THEN {"phase_unwrapped_over_time.png"} ELSE {}

RECURSIVE SumInts(_)
SumInts(r) == IF Len(r) = 0 THEN 0 ELSE r[1] + SumInts(Tail(r))

\* m.mean(axis=1): for each frame, the mean over its tones
MeanAxis1(m) ==
    PyList([r \in 1..Len(m.v) |->
               Rat(SumInts(m.v[r].data), Len(m.v[r].data))])

\* m.mean(axis=0): for each tone, the mean over the frames
MeanAxis0(m) ==
    PyList([k \in 1..Len(m.v[1].data) |->
               Rat(SumInts([r \in 1..Len(m.v) |-> m.v[r].data[k]]), Len(m.v))])

\* Mutant: the two axes swapped.
MeanPerFrame_Axis0(sc, m) ==
    IF sc \in {"csi_inspector", "complete_csi"} THEN MeanAxis0(m) ELSE None

\* mean_amp = Amp.mean(axis=1)
MeanPerFrame(sc, m) ==
    IF sc \in {"csi_inspector", "complete_csi"} THEN MeanAxis1(m) ELSE None

\* plt.plot(Amp.mean(axis=0)) of csi_inspector
MeanPerTone(sc, m) ==
    IF sc = "csi_inspector" THEN MeanAxis0(m) ELSE None

Report ==
    /\ pc = "report"
    /\ UNCHANGED <<rateVars, bfiVars, procVars>>
    /\ outcome' = ReportOutcome(script, frames, csi_frames_all, Amp, Phase)
    /\ IF outcome'.how = "return" /\ script # "csi_viz"
       THEN LET c == MetaBlock(script, frames, csi_frames_all, csi_meta)
                K == IF script = "csi" THEN 0 ELSE Len(Amp.v[1].data)
            IN  /\ sub_idx' = SubIdx(script, c)
                /\ num_sub' = NumSub(script, sub_idx', K)
                /\ freq_offsets' = IF script \in FreqScripts
                                   THEN FreqOffsets(script, c) ELSE None
       ELSE UNCHANGED <<sub_idx, num_sub, freq_offsets>>
    /\ IF outcome'.how = "return"
       THEN /\ outputs' = outputs \cup SummaryFiles(script)
                                  \cup UnwrapFiles(script)
                                  \cup FreqFiles(script, freq_offsets')
            /\ phase_unwrapped' = IF script \in UnwrapScripts
                                  THEN UnwrapRows(Phase) ELSE None
            /\ mean_amp' = MeanPerFrame(script, Amp)
            /\ mean_amp_tone' = MeanPerTone(script, Amp)
            /\ warnings' = warnings \cup FreqWarnings(script, freq_offsets')
            /\ summary_timing' = SummaryTiming(script, time_span_sec, csi_rate, fps)
            /\ reported_tx_mac' = ReportedTx(script, use_tx_filter, TARGET,
                                             all_macs, tx_primary_firstpair)
            /\ reported_rx_mac' = ReportedRx(script, rx_primary_bycount,
                                             rx_primary_firstpair)
       ELSE UNCHANGED <<outputs, warnings, reported_tx_mac, reported_rx_mac,
                        summary_timing, phase_unwrapped, mean_amp,
                        mean_amp_tone>>
    /\ pc' = "done"
    /\ UNCHANGED <<script, frames, target_tx_mac, use_tx_filter, i, csi_frames_all,
                   all_macs, tx_primary_firstpair, rx_primary_firstpair, TARGET,
                   csi_frames_used, rx_list_unicast, rx_primary_bycount,
                   timestamps, Amp_list, Phase_list, row_src, csi_meta, Amp,
                   Phase>>

(***************************************************************************)
(* bfi_capture.py: link statistics of one station.                         *)
(***************************************************************************)
\* A line of tshark's output that holds the time t, and a line that is
\* empty once stripped.
TimeLine(t) == [blank |-> FALSE, t |-> t]
BlankLine == [blank |-> TRUE, t |-> 0]

\* tvals = [float(x) for x in times.splitlines() if x.strip()]
ParseTimes(lines) ==
    LET kept == SelectSeq(lines, LAMBDA x : ~x.blank)
    IN  [k \in 1..Len(kept) |-> Rat(kept[k].t, 1)]

\* dur = tvals[-1] - tvals[0] if len(tvals) > 1 else 0
StaDuration(tv) ==
    IF Len(tv) > 1 THEN Rat(tv[Len(tv)].num - tv[1].num, 1) ELSE Rat(0, 1)

\* rate = count / dur if dur > 0 else 0
StaRate(count, dur) ==
    IF dur.num > 0 THEN FDiv(Rat(count, 1), dur) ELSE Rat(0, 1)

\* sta_stats: (count, dur, rate), or (0, 0, 0) when no time was printed
sta_stats(lines) ==
    LET tv == ParseTimes(lines)
    IN  IF Len(tv) = 0
        THEN [count |-> 0, dur |-> Rat(0, 1), rate |-> Rat(0, 1)]
        ELSE [count |-> Len(tv), dur |-> StaDuration(tv),
              rate |-> StaRate(Len(tv), StaDuration(tv))]

StaStats ==
    /\ pc = "sta_stats"
    /\ sta_result' = sta_stats(times)
    /\ pc' = "done"
    /\ UNCHANGED <<script, frames, target_tx_mac, use_tx_filter, i, csi_frames_all,
                   all_macs, tx_primary_firstpair, rx_primary_firstpair, TARGET,
                   csi_frames_used, rx_list_unicast, rx_primary_bycount,
                   timestamps, Amp_list, Phase_list, row_src, csi_meta, Amp,
                   Phase, reported_tx_mac, reported_rx_mac, outputs, warnings,
                   outcome, rateVars, metaVars, times, procVars>>

NextSta == StaStats

Next ==
    \/ FilterCsi
    \/ MacStep
    \/ TargetFilter
    \/ Timestamps
    \/ BuildStep
    \/ Stack
    \/ Report

(***************************************************************************)
(* bfi_capture.py: main.                                                   *)
(***************************************************************************)
\* The log as the tokens written to it; a line ends with "\n".
NL == "\n"
LineOf(tokens) == tokens \o <<NL>>

\* print("[CAPTURE] Started"), print(f"[CAPTURE] Saved: {final}"),
\* sys.exit("No capture file."), and lines that hold no marker
StartedLine == LineOf(<<"[CAPTURE]", " ", "Started">>)
SavedLine == LineOf(<<"[CAPTURE]", " ", "Saved:", " ", "x">>)
NoCaptureFileLine == LineOf(<<"No capture file.">>)
ObservingLine == LineOf(<<"[CAPTURE]", " ", "x">>)
OtherLine == LineOf(<<"x">>)

\* The adapter as the commands leave it.
Adapter(nm, type, up) == [nm |-> nm, type |-> type, up |-> up]

\* set_monitor's commands in order: nmcli managed no, ip link down, iw type
\* monitor, ip link up, iw set freq, iw info.  The second to the fifth are
\* run without soft=True: a failure of one of them ends the process.
SetMonitorCmds == 6
HardCmds == {2, 3, 4, 5}

MonitorEffect(k, a) ==
    CASE k = 1 -> [a EXCEPT !.nm = FALSE]
      [] k = 2 -> [a EXCEPT !.up = FALSE]
      [] k = 3 -> [a EXCEPT !.type = "monitor"]
      [] k = 4 -> [a EXCEPT !.up = TRUE]
      [] OTHER -> a

\* restore_managed's commands in order, all soft: ip link down, iw type
\* managed, ip link up, nmcli managed yes.
RestoreCmds == 4

RestoreEffect(k, a) ==
    CASE k = 1 -> [a EXCEPT !.up = FALSE]
      [] k = 2 -> [a EXCEPT !.type = "managed"]
      [] k = 3 -> [a EXCEPT !.up = TRUE]
      [] OTHER -> [a EXCEPT !.nm = TRUE]

\* What the bfi_capture process leaves alone.
nonBfiVars == <<analysisVars, picoVars, camVars, watchVars, to_write,
                launchVars, bfi_pending>>

\* The process ends: sys.exit, an uncaught exception, or the end of main.
BfiEnds(how, line) ==
    /\ bfi_pc' = "exited"
    /\ bfi_exit' = how
    /\ bfi_log' = bfi_log \o line

\* cfg = ask_user(): the user presses Start Capture, or closes the window
\* (sys.exit(0)); then the [SETUP] line.
BfiAskUser ==
    /\ bfi_pc = "ask_user"
    /\ \E go \in BOOLEAN :
          IF go
          THEN /\ bfi_pc' = "set_monitor"
               /\ bfi_log' = bfi_log \o OtherLine
               /\ bfi_exit' = bfi_exit
          ELSE BfiEnds("exit0", <<>>)
    /\ UNCHANGED <<bfi_cmd, iface, set_monitor_cmds, restore_cmds, tcpdump,
                   log_exists, nonBfiVars>>

\* One command of set_monitor, through run(): a failing command that is not
\* soft prints [ERROR] and calls sys.exit(1).
BfiSetMonitor ==
    /\ bfi_pc = "set_monitor"
    /\ \E okc \in BOOLEAN :
          /\ iface' = IF okc THEN MonitorEffect(bfi_cmd, iface) ELSE iface
          /\ IF ~okc /\ bfi_cmd \in HardCmds
             THEN BfiEnds("exit1", OtherLine) /\ bfi_cmd' = bfi_cmd
             ELSE /\ bfi_pc' = IF bfi_cmd = SetMonitorCmds
                               THEN "print_started" ELSE bfi_pc
                  /\ bfi_cmd' = IF bfi_cmd = SetMonitorCmds THEN 1 ELSE bfi_cmd + 1
                  /\ UNCHANGED <<bfi_exit, bfi_log>>
    /\ set_monitor_cmds' = set_monitor_cmds + 1
    /\ UNCHANGED <<restore_cmds, tcpdump, log_exists, nonBfiVars>>

\* print("[CAPTURE] Observing traffic ..."); print("[CAPTURE] Started")
BfiPrintStarted ==
    /\ bfi_pc = "print_started"
    /\ bfi_log' = bfi_log \o ObservingLine \o StartedLine
    /\ bfi_pc' = "popen"
    /\ UNCHANGED <<bfi_cmd, bfi_exit, iface, set_monitor_cmds, restore_cmds,
                   tcpdump, log_exists, nonBfiVars>>

\* proc = subprocess.Popen(["sudo", "tcpdump", ...]): the capture process
\* runs, or Popen raises OSError.
BfiPopen ==
    /\ bfi_pc = "popen"
    /\ \E okc \in BOOLEAN :
          IF okc
          THEN /\ tcpdump' = "running"
               /\ bfi_pc' = "wait"
               /\ UNCHANGED <<bfi_exit, bfi_log>>
          ELSE BfiEnds("exception", OtherLine) /\ tcpdump' = tcpdump
    /\ UNCHANGED <<bfi_cmd, iface, set_monitor_cmds, restore_cmds, log_exists,
                   nonBfiVars>>

\* proc.wait(timeout=...), and proc.terminate() on TimeoutExpired
BfiWait ==
    /\ bfi_pc = "wait"
    /\ tcpdump' = "exited"
    /\ bfi_pc' = "check_file"
    /\ UNCHANGED <<bfi_cmd, bfi_exit, iface, set_monitor_cmds, restore_cmds,
                   bfi_log, log_exists, nonBfiVars>>

\* if not file_size_ok(tmp): restore_managed(iface); sys.exit("No capture file.")
BfiCheckFile ==
    /\ bfi_pc = "check_file"
    /\ \E file_size_ok \in BOOLEAN :
          bfi_pc' = IF file_size_ok THEN "move" ELSE "restore_nofile"
    /\ UNCHANGED <<bfi_cmd, bfi_exit, iface, set_monitor_cmds, restore_cmds,
                   tcpdump, bfi_log, log_exists, nonBfiVars>>

\* shutil.move(tmp, final), which may raise OSError; print("[CAPTURE] Saved: ...")
BfiMove ==
    /\ bfi_pc = "move"
    /\ \E okc \in BOOLEAN :
          IF okc
          THEN /\ bfi_log' = bfi_log \o SavedLine
               /\ bfi_pc' = "analysis"
               /\ bfi_exit' = bfi_exit
          ELSE BfiEnds("exception", OtherLine)
    /\ UNCHANGED <<bfi_cmd, iface, set_monitor_cmds, restore_cmds, tcpdump,
                   log_exists, nonBfiVars>>

\* The tshark analysis and its printed summary; int() and float() of what
\* tshark printed may raise ValueError.
BfiAnalysis ==
    /\ bfi_pc = "analysis"
    /\ \E okc \in BOOLEAN :
          IF okc
          THEN /\ bfi_log' = bfi_log \o OtherLine
               /\ bfi_pc' = "restore_final"
               /\ bfi_exit' = bfi_exit
          ELSE BfiEnds("exception", OtherLine)
    /\ UNCHANGED <<bfi_cmd, iface, set_monitor_cmds, restore_cmds, tcpdump,
                   log_exists, nonBfiVars>>

\* One command of restore_managed; after the last one, sys.exit("No capture
\* file.") or the end of main.
BfiRestore ==
    /\ bfi_pc \in {"restore_nofile", "restore_final"}
    /\ \E okc \in BOOLEAN :
          iface' = IF okc THEN RestoreEffect(bfi_cmd, iface) ELSE iface
    /\ restore_cmds' = restore_cmds + 1
    /\ IF bfi_cmd = RestoreCmds
       THEN /\ IF bfi_pc = "restore_nofile"
               THEN BfiEnds("NoCaptureFile", NoCaptureFileLine)
               ELSE BfiEnds("done", OtherLine)
            /\ bfi_cmd' = 1
       ELSE /\ bfi_cmd' = bfi_cmd + 1
            /\ UNCHANGED <<bfi_pc, bfi_exit, bfi_log>>
    /\ UNCHANGED <<set_monitor_cmds, tcpdump, log_exists, nonBfiVars>>

NextBfi ==
    \/ BfiAskUser
    \/ BfiSetMonitor
    \/ BfiPrintStarted
    \/ BfiPopen
    \/ BfiWait
    \/ BfiCheckFile
    \/ BfiMove
    \/ BfiAnalysis
    \/ BfiRestore

(***************************************************************************)
(* picoscenes_csi_collection.py: main.                                     *)
(***************************************************************************)
\* Every waiting time, counted in sleeps of the loop that waits.
MaxTicks == 2

\* A signal as it is sent: to whom, which one, whether the child had exited
\* when it was sent, and how many sleeps the sender had waited since the
\* signal before it.
Signal(to, sig, exited, waited) ==
    [to |-> to, sig |-> sig, exited |-> exited, waited |-> waited]

\* disable_wifi's commands in order: nmcli dev disconnect (check=False),
\* nmcli radio wifi off, rfkill unblock wifi.
DisableWifiCmds == 3
\* restore_wifi's commands in order: iw dev del (check=False), nmcli radio
\* wifi on, systemctl restart NetworkManager, ip link set up, nmcli dev wifi
\* list (check=False).
RestoreWifiCmds == 5

\* run(cmd, check=True) raises CalledProcessError on a non-zero status.
DisableChecked == {2, 3}
RestoreChecked == {2, 3, 4}

\* What picoscenes_csi_collection leaves alone.
nonPicoVars == <<analysisVars, bfiMainVars, logVars, camVars, watchVars,
                 launchVars>>

PicoEnds(how) == pico_pc' = "exited" /\ pico_exit' = how

\* validate_environment: fatal() when a tool is missing or the user is root
PicoValidate ==
    /\ pico_pc = "validate_environment"
    /\ \E okc \in BOOLEAN :
          IF okc THEN pico_pc' = "prepare_psrd" /\ pico_exit' = pico_exit
          ELSE PicoEnds("fatal: environment")
    /\ UNCHANGED <<pico_cmd, pico_raising, wifi_radio, disable_cmds,
                   restore_wifi_cmds, logger, logger_pending, pico_elapsed,
                   sent, nonPicoVars>>

\* prepare_psrd: three checked commands
PicoPreparePsrd ==
    /\ pico_pc = "prepare_psrd"
    /\ \E okc \in BOOLEAN :
          IF okc THEN pico_pc' = "disable_wifi" /\ pico_exit' = pico_exit
          ELSE PicoEnds("prepare_psrd failed")
    /\ UNCHANGED <<pico_cmd, pico_raising, wifi_radio, disable_cmds,
                   restore_wifi_cmds, logger, logger_pending, pico_elapsed,
                   sent, nonPicoVars>>

\* One command of disable_wifi.
PicoDisableWifi ==
    /\ pico_pc = "disable_wifi"
    /\ \E okc \in BOOLEAN :
          /\ wifi_radio' = IF okc /\ pico_cmd = 2 THEN FALSE ELSE wifi_radio
          /\ IF ~okc /\ pico_cmd \in DisableChecked
             THEN PicoEnds("disable_wifi failed") /\ pico_cmd' = pico_cmd
             ELSE /\ pico_pc' = IF pico_cmd = DisableWifiCmds
                                THEN "get_channel_gui" ELSE pico_pc
                  /\ pico_cmd' = IF pico_cmd = DisableWifiCmds THEN 1
                                 ELSE pico_cmd + 1
                  /\ pico_exit' = pico_exit
    /\ disable_cmds' = disable_cmds + 1
    /\ UNCHANGED <<pico_raising, restore_wifi_cmds, logger, logger_pending,
                   pico_elapsed, sent, nonPicoVars>>

\* get_channel_gui: the user enters a channel and a bandwidth, or cancels a
\* dialog, or no GUI can be shown: fatal() calls sys.exit(1).  An invalid
\* bandwidth asks again and changes nothing.
PicoChannelGui ==
    /\ pico_pc = "get_channel_gui"
    /\ \E entered \in BOOLEAN :
          IF entered THEN pico_pc' = "prepare_array" /\ pico_exit' = pico_exit
          ELSE PicoEnds("fatal: User cancelled input")
    /\ UNCHANGED <<pico_cmd, pico_raising, wifi_radio, disable_cmds,
                   restore_wifi_cmds, logger, logger_pending, pico_elapsed,
                   sent, nonPicoVars>>

\* prepare_array: two checked commands
PicoPrepareArray ==
    /\ pico_pc = "prepare_array"
    /\ \E okc \in BOOLEAN :
          IF okc THEN pico_pc' = "popen" /\ pico_exit' = pico_exit
          ELSE PicoEnds("prepare_array failed")
    /\ UNCHANGED <<pico_cmd, pico_raising, wifi_radio, disable_cmds,
                   restore_wifi_cmds, logger, logger_pending, pico_elapsed,
                   sent, nonPicoVars>>

\* collect_csi: proc = subprocess.Popen(["PicoScenes", ...]); start = time.time()
PicoPopen ==
    /\ pico_pc = "popen"
    /\ logger' = "running"
    /\ pico_elapsed' = 0
    /\ pico_pc' = "collect"
    /\ UNCHANGED <<pico_cmd, pico_exit, pico_raising, wifi_radio, disable_cmds,
                   restore_wifi_cmds, logger_pending, sent, nonPicoVars>>

\* while time.time() - start < CAPTURE_DURATION_SEC: time.sleep(1)
PicoCollect ==
    /\ pico_pc = "collect"
    /\ IF pico_elapsed < MaxTicks
       THEN pico_elapsed' = pico_elapsed + 1 /\ pico_pc' = pico_pc
       ELSE pico_elapsed' = pico_elapsed /\ pico_pc' = "terminate"
    /\ UNCHANGED <<pico_cmd, pico_exit, pico_raising, wifi_radio, disable_cmds,
                   restore_wifi_cmds, logger, logger_pending, sent, nonPicoVars>>

\* Ctrl+C during the capture: KeyboardInterrupt leaves the loop through the
\* finally block.
PicoKeyboardInterrupt ==
    /\ pico_pc = "collect"
    /\ pico_raising' = TRUE
    /\ pico_pc' = "terminate"
    /\ UNCHANGED <<pico_cmd, pico_exit, wifi_radio, disable_cmds,
                   restore_wifi_cmds, logger, logger_pending, pico_elapsed,
                   sent, nonPicoVars>>

\* Popen.send_signal: poll first, and send nothing to a child that has a
\* return code.
SendToLogger(sig, waited) ==
    IF logger = "exited"
    THEN UNCHANGED <<sent, logger_pending>>
    ELSE /\ sent' = Append(sent, Signal("logger", sig, FALSE, waited))
         /\ logger_pending' = logger_pending \cup {sig}

\* finally: proc.terminate()
PicoTerminate ==
    /\ pico_pc = "terminate"
    /\ SendToLogger("SIGTERM", 0)
    /\ pico_elapsed' = 0
    /\ pico_pc' = "wait"
    /\ UNCHANGED <<pico_cmd, pico_exit, pico_raising, wifi_radio, disable_cmds,
                   restore_wifi_cmds, logger, nonPicoVars>>

\* proc.wait(timeout=10): returns once the child has exited, raises
\* TimeoutExpired when the time is up and it has not.
PicoWait ==
    /\ pico_pc = "wait"
    /\ IF logger = "exited"
       THEN pico_pc' = "after_finally" /\ pico_elapsed' = pico_elapsed
       ELSE IF pico_elapsed < MaxTicks
       THEN pico_pc' = pico_pc /\ pico_elapsed' = pico_elapsed + 1
       ELSE pico_pc' = "kill" /\ pico_elapsed' = pico_elapsed
    /\ UNCHANGED <<pico_cmd, pico_exit, pico_raising, wifi_radio, disable_cmds,
                   restore_wifi_cmds, logger, logger_pending, sent, nonPicoVars>>

\* except subprocess.TimeoutExpired: proc.kill()
PicoKill ==
    /\ pico_pc = "kill"
    /\ SendToLogger("SIGKILL", pico_elapsed)
    /\ pico_pc' = "after_finally"
    /\ UNCHANGED <<pico_cmd, pico_exit, pico_raising, wifi_radio, disable_cmds,
                   restore_wifi_cmds, logger, pico_elapsed, nonPicoVars>>

\* After the finally block: the KeyboardInterrupt goes on to end the script,
\* or collect_csi returns and restore_wifi is next.
PicoAfterFinally ==
    /\ pico_pc = "after_finally"
    /\ IF pico_raising
       THEN PicoEnds("KeyboardInterrupt")
       ELSE pico_pc' = "restore_wifi" /\ pico_exit' = pico_exit
    /\ UNCHANGED <<pico_cmd, pico_raising, wifi_radio, disable_cmds,
                   restore_wifi_cmds, logger, logger_pending, pico_elapsed,
                   sent, nonPicoVars>>

\* One command of restore_wifi.
PicoRestoreWifi ==
    /\ pico_pc = "restore_wifi"
    /\ \E okc \in BOOLEAN :
          /\ wifi_radio' = IF okc /\ pico_cmd = 2 THEN TRUE ELSE wifi_radio
          /\ IF ~okc /\ pico_cmd \in RestoreChecked
             THEN PicoEnds("restore_wifi failed") /\ pico_cmd' = pico_cmd
             ELSE /\ pico_pc' = IF pico_cmd = RestoreWifiCmds
                                THEN "validate" ELSE pico_pc
                  /\ pico_cmd' = IF pico_cmd = RestoreWifiCmds THEN 1
                                 ELSE pico_cmd + 1
                  /\ pico_exit' = pico_exit
    /\ restore_wifi_cmds' = restore_wifi_cmds + 1
    /\ UNCHANGED <<pico_raising, disable_cmds, logger, logger_pending,
                   pico_elapsed, sent, nonPicoVars>>

\* find_csi_file, python_validate, matlab_validate: fatal() when no file or
\* no MATLAB is found, else the end of main.
PicoValidateCsi ==
    /\ pico_pc = "validate"
    /\ \E okc \in BOOLEAN : PicoEnds(IF okc THEN "done" ELSE "fatal: validation")
    /\ UNCHANGED <<pico_cmd, pico_raising, wifi_radio, disable_cmds,
                   restore_wifi_cmds, logger, logger_pending, pico_elapsed,
                   sent, nonPicoVars>>

\* The PicoScenes process takes a pending signal: SIGKILL ends it, SIGTERM
\* ends it unless the process is stuck.
LoggerSignal ==
    /\ logger = "running"
    /\ \E sig \in logger_pending :
          /\ logger_pending' = logger_pending \ {sig}
          /\ \E stuck \in BOOLEAN :
                logger' = IF sig = "SIGTERM" /\ stuck THEN logger ELSE "exited"
    /\ UNCHANGED <<pico_pc, pico_cmd, pico_exit, pico_raising, wifi_radio,
                   disable_cmds, restore_wifi_cmds, pico_elapsed, sent,
                   nonPicoVars>>

\* The PicoScenes process ends by itself.
LoggerExits ==
    /\ logger = "running"
    /\ logger' = "exited"
    /\ UNCHANGED <<pico_pc, pico_cmd, pico_exit, pico_raising, wifi_radio,
                   disable_cmds, restore_wifi_cmds, logger_pending,
                   pico_elapsed, sent, nonPicoVars>>

NextPico ==
    \/ PicoValidate
    \/ PicoPreparePsrd
    \/ PicoDisableWifi
    \/ PicoChannelGui
    \/ PicoPrepareArray
    \/ PicoPopen
    \/ PicoCollect
    \/ PicoKeyboardInterrupt
    \/ PicoTerminate
    \/ PicoWait
    \/ PicoKill
    \/ PicoAfterFinally
    \/ PicoRestoreWifi
    \/ PicoValidateCsi
    \/ LoggerSignal
    \/ LoggerExits

\* picoscenes_csi_collection is not running.
PicoIdle ==
    /\ pico_pc = "none"
    /\ pico_cmd = 1
    /\ pico_exit = "running"
    /\ pico_raising = FALSE
    /\ wifi_radio = TRUE
    /\ disable_cmds = 0
    /\ restore_wifi_cmds = 0
    /\ logger = "none"
    /\ logger_pending = {}
    /\ pico_elapsed = 0
    /\ sent = <<>>

(***************************************************************************)
(* camera.py.                                                              *)
(***************************************************************************)
\* Most frames the capture loop takes.
MaxCamFrames == 2

\* COLOR_DEV, DEPTH_DEV, IR_DEV, in the order main opens them
CamDevices == 3

\* What camera.py leaves alone.
nonCamVars == <<analysisVars, bfiMainVars, logVars, picoVars, watchVars,
                launchVars>>

CamEnds(how) == cam_pc' = "exited" /\ cam_exit' = how

\* The imports, down to signal.signal(SIGINT, _handle_stop) and
\* signal.signal(SIGTERM, _handle_stop).
CamImport ==
    /\ cam_pc = "import"
    /\ cam_pc' = "open"
    /\ UNCHANGED <<STOP_REQUESTED, cam_dev, frame_idx, rgb_pngs, caps_open,
                   video, cam_exit, cam_pending, nonCamVars>>

\* open_v4l2 of the next device: RuntimeError if it does not open.
CamOpen ==
    /\ cam_pc = "open"
    /\ \E opened \in BOOLEAN :
          IF opened
          THEN /\ caps_open' = caps_open \cup {cam_dev}
               /\ cam_pc' = IF cam_dev = CamDevices THEN "loop" ELSE cam_pc
               /\ cam_dev' = IF cam_dev = CamDevices THEN cam_dev ELSE cam_dev + 1
               /\ cam_exit' = cam_exit
          ELSE CamEnds("RuntimeError") /\ UNCHANGED <<caps_open, cam_dev>>
    /\ UNCHANGED <<STOP_REQUESTED, frame_idx, rgb_pngs, video, cam_pending,
                   nonCamVars>>

\* One test of `while mono_s() < deadline and not STOP_REQUESTED` and, if
\* it holds, one iteration: the three reads, the images saved, the CSV row,
\* and `if cv2.waitKey(1) == 27: break`.  An iteration in which no device
\* gave a frame changes nothing.
CamLoop ==
    /\ cam_pc = "loop"
    /\ \E deadline_reached, ok_c, esc \in BOOLEAN :
          IF STOP_REQUESTED \/ deadline_reached \/ frame_idx = MaxCamFrames
          THEN cam_pc' = "release" /\ UNCHANGED <<frame_idx, rgb_pngs>>
          ELSE /\ frame_idx' = frame_idx + 1
               /\ rgb_pngs' = IF ok_c THEN rgb_pngs + 1 ELSE rgb_pngs
               /\ cam_pc' = IF esc THEN "release" ELSE cam_pc
    /\ UNCHANGED <<STOP_REQUESTED, cam_dev, caps_open, video, cam_exit,
                   cam_pending, nonCamVars>>

\* finally: color_cap.release(); depth_cap.release(); ir_cap.release()
CamRelease ==
    /\ cam_pc = "release"
    /\ caps_open' = {}
    /\ cam_pc' = "post"
    /\ UNCHANGED <<STOP_REQUESTED, cam_dev, frame_idx, rgb_pngs, video,
                   cam_exit, cam_pending, nonCamVars>>

\* compute_measured_fps, then encode_rgb_video_from_png up to the
\* VideoWriter: frames[0] raises IndexError when no RGB image was saved.
CamPost ==
    /\ cam_pc = "post"
    /\ IF rgb_pngs = 0
       THEN CamEnds("IndexError") /\ video' = video
       ELSE cam_pc' = "encode" /\ video' = "open" /\ cam_exit' = cam_exit
    /\ UNCHANGED <<STOP_REQUESTED, cam_dev, frame_idx, rgb_pngs, caps_open,
                   cam_pending, nonCamVars>>

\* The loop over the images, vw.release(), the [DONE] lines, the end of main.
CamEncode ==
    /\ cam_pc = "encode"
    /\ video' = "finalized"
    /\ CamEnds("done")
    /\ UNCHANGED <<STOP_REQUESTED, cam_dev, frame_idx, rgb_pngs, caps_open,
                   cam_pending, nonCamVars>>

\* _handle_stop: STOP_REQUESTED = True, whatever the signal
HandleStop(signum) == TRUE

\* The process takes a pending signal.  SIGKILL ends it.  SIGINT and SIGTERM
\* run _handle_stop once the handlers are installed; before that SIGINT
\* raises KeyboardInterrupt and SIGTERM ends the process.
CamSignal ==
    /\ cam_pc \notin {"none", "exited"}
    /\ \E sig \in cam_pending :
          /\ cam_pending' = cam_pending \ {sig}
          /\ IF sig = "SIGKILL" \/ cam_pc = "import"
             THEN /\ CamEnds(IF sig = "SIGINT" THEN "KeyboardInterrupt"
                             ELSE "killed")
                  /\ STOP_REQUESTED' = STOP_REQUESTED
             ELSE /\ STOP_REQUESTED' = HandleStop(sig)
                  /\ UNCHANGED <<cam_pc, cam_exit>>
    /\ UNCHANGED <<cam_dev, frame_idx, rgb_pngs, caps_open, video, nonCamVars>>

\* Somebody asks camera.py to stop: SIGINT or SIGTERM, each at most once.
CamStopRequest ==
    /\ cam_pc \notin {"none", "exited"}
    /\ \E sig \in {"SIGINT", "SIGTERM"} :
          /\ \A k \in 1..Len(sent) : sent[k].sig # sig
          /\ sent' = Append(sent, Signal("cam", sig, FALSE, 0))
          /\ cam_pending' = cam_pending \cup {sig}
    /\ UNCHANGED <<cam_pc, STOP_REQUESTED, cam_dev, frame_idx, rgb_pngs,
                   caps_open, video, cam_exit, analysisVars, bfiMainVars,
                   logVars, pico_pc, pico_cmd, pico_exit, pico_raising,
                   wifi_radio, disable_cmds, restore_wifi_cmds, logger,
                   logger_pending, pico_elapsed, watchVars, launchVars>>

NextCam ==
    \/ CamImport
    \/ CamOpen
    \/ CamLoop
    \/ CamRelease
    \/ CamPost
    \/ CamEncode
    \/ CamSignal
    \/ CamStopRequest

\* camera.py is not running.
CamIdle ==
    /\ cam_pc = "none"
    /\ STOP_REQUESTED = FALSE
    /\ cam_dev = 1
    /\ frame_idx = 0
    /\ rgb_pngs = 0
    /\ caps_open = {}
    /\ video = "none"
    /\ cam_exit = "running"
    /\ cam_pending = {}

(***************************************************************************)
(* run_bfi_and_camera.py: wait_for_log_pattern.                            *)
(***************************************************************************)
\* r"\[CAPTURE\]\s+<word>" and a literal text, as patterns over tokens
Marker(word) == [kind |-> "marker", word |-> word]
Text(word) == [kind |-> "text", word |-> word]

BFI_START_PATTERNS == {Marker("Started")}
BFI_STOP_PATTERNS == {Marker("Saved:"), Text("No capture file.")}

\* rgx.search(line)
Search(rgx, line) ==
    IF rgx.kind = "text"
    THEN \E a \in 1..Len(line) : line[a] = rgx.word
    ELSE \E a, b \in 1..Len(line) :
            /\ a + 1 < b
            /\ line[a] = "[CAPTURE]"
            /\ line[b] = rgx.word
            /\ \A m \in (a + 1)..(b - 1) : line[m] = " "

SearchAny(patterns, line) == \E rgx \in patterns : Search(rgx, line)

\* Index of the first line end of a text, 0 if it has none.
FirstNL(text) ==
    IF \E k \in 1..Len(text) : text[k] = NL
    THEN CHOOSE k \in 1..Len(text) :
            text[k] = NL /\ \A m \in 1..(k - 1) : text[m] # NL
    ELSE 0

\* str.splitlines(): the lines without their ends; a last line that has no
\* end yet is a line too.
RECURSIVE splitlines(_)
splitlines(text) ==
    IF text = <<>> THEN <<>>
    ELSE IF FirstNL(text) = 0 THEN <<text>>
    ELSE <<SubSeq(text, 1, FirstNL(text) - 1)>>
            \o splitlines(SubSeq(text, FirstNL(text) + 1, Len(text)))

\* f.readline() at offset pos: up to and with the next line end, or what is
\* there if the line has no end yet ("" at the end of the file).
readline(text, pos) ==
    LET rest == SubSeq(text, pos + 1, Len(text))
    IN  IF FirstNL(rest) = 0 THEN rest ELSE SubSeq(rest, 1, FirstNL(rest))

\* line.strip() of a line read: without its end.
StripLine(line) == SelectSeq(line, LAMBDA tok : tok # NL)

\* What wait_for_log_pattern returns: a line, or None.
Found(line) == [found |-> TRUE, line |-> line]
NotFound == [found |-> FALSE, line |-> <<>>]

\* The first line of lines that matches, as a result; NotFound if none does.
FirstMatch(patterns, lines) ==
    IF \E k \in 1..Len(lines) : SearchAny(patterns, lines[k])
    THEN Found(lines[CHOOSE k \in 1..Len(lines) :
                       /\ SearchAny(patterns, lines[k])
                       /\ \A m \in 1..(k - 1) : ~SearchAny(patterns, lines[m])])
    ELSE NotFound

\* timeout_s=None
NoTimeout == -1

\* timeout_s is not None and time.time() - start_t > timeout_s
TimedOut == w_timeout # NoTimeout /\ w_elapsed > w_timeout

\* time.sleep(0.05): one more sleep on a clock that is looked at
Slept == IF w_timeout = NoTimeout THEN w_elapsed ELSE w_elapsed + 1

\* What wait_for_log_pattern leaves alone.
nonWatchVars == <<analysisVars, bfiMainVars, picoVars, camVars, bfi_log,
                  log_exists, to_write, launchVars>>

\* A call: compiled = _compiled(patterns); start_t = time.time()
WatchCall(patterns, timeout_s) ==
    /\ w_pc' = "wait_file"
    /\ w_patterns' = patterns
    /\ w_timeout' = timeout_s
    /\ w_elapsed' = 0
    /\ w_pos' = 0
    /\ w_result' = NotFound

\* while not log_path.exists(): return None on timeout, else sleep
WatchWaitFile ==
    /\ w_pc = "wait_file"
    /\ IF log_exists
       THEN w_pc' = "scan" /\ UNCHANGED w_elapsed
       ELSE IF TimedOut
       THEN w_pc' = "returned" /\ UNCHANGED w_elapsed
       ELSE w_elapsed' = Slept /\ UNCHANGED w_pc
    /\ UNCHANGED <<w_patterns, w_timeout, w_pos, w_result, nonWatchVars>>

\* existing = f.read(); the first line of existing.splitlines() that matches
\* is returned
WatchScan ==
    /\ w_pc = "scan"
    /\ w_pos' = Len(bfi_log)
    /\ LET existing == SubSeq(bfi_log, w_pos + 1, Len(bfi_log))
           res == FirstMatch(w_patterns, splitlines(existing))
       IN  /\ w_result' = res
           /\ w_pc' = IF res.found THEN "returned" ELSE "tail"
    /\ UNCHANGED <<w_patterns, w_timeout, w_elapsed, nonWatchVars>>

\* line = f.readline() gave something: return it if it matches
WatchReadline ==
    /\ w_pc = "tail"
    /\ w_pos < Len(bfi_log)
    /\ LET line == readline(bfi_log, w_pos)
       IN  /\ w_pos' = w_pos + Len(line)
           /\ IF SearchAny(w_patterns, line)
              THEN w_result' = Found(StripLine(line)) /\ w_pc' = "returned"
              ELSE UNCHANGED <<w_result, w_pc>>
    /\ UNCHANGED <<w_patterns, w_timeout, w_elapsed, nonWatchVars>>

\* line = f.readline() gave nothing: return None on timeout, else sleep
WatchNoLine ==
    /\ w_pc = "tail"
    /\ w_pos = Len(bfi_log)
    /\ w_timeout # NoTimeout
    /\ IF TimedOut
       THEN w_pc' = "returned" /\ UNCHANGED w_elapsed
       ELSE w_elapsed' = Slept /\ UNCHANGED w_pc
    /\ UNCHANGED <<w_patterns, w_timeout, w_pos, w_result, nonWatchVars>>

\* start_process: log_f = open(log_path, "w")
WriterOpens ==
    /\ ~log_exists
    /\ log_exists' = TRUE
    /\ UNCHANGED <<bfi_log, to_write, watchVars, analysisVars, bfiMainVars,
                   picoVars, camVars, launchVars>>

\* The writer's next write: some of what it has to write, up to any token.
WriterWrites ==
    /\ log_exists
    /\ \E k \in 1..Len(to_write) :
          /\ bfi_log' = bfi_log \o SubSeq(to_write, 1, k)
          /\ to_write' = SubSeq(to_write, k + 1, Len(to_write))
    /\ UNCHANGED <<log_exists, watchVars, analysisVars, bfiMainVars, picoVars,
                   camVars, launchVars>>

NextWatch ==
    \/ WatchWaitFile
    \/ WatchScan
    \/ WatchReadline
    \/ WatchNoLine
    \/ WriterOpens
    \/ WriterWrites

\* No call of wait_for_log_pattern is under way.
WatchIdle ==
    /\ w_pc = "idle"
    /\ w_patterns = {}
    /\ w_timeout = NoTimeout
    /\ w_elapsed = 0
    /\ w_pos = 0
    /\ w_result = NotFound

(***************************************************************************)
(* run_bfi_and_camera.py: main, interrupt_then_wait,                       *)
(* terminate_process_group.                                                *)
(***************************************************************************)
\* p.poll() is not None, for the child p stands for
Polled(p) == IF p = "bfi" THEN bfi_pc = "exited" ELSE cam_pc = "exited"

\* What the launcher's own steps leave alone in the other scripts.
picoOwnVars == <<pico_pc, pico_cmd, pico_exit, pico_raising, wifi_radio,
                 disable_cmds, restore_wifi_cmds, logger, logger_pending,
                 pico_elapsed>>
bfiOwnVars == <<bfi_cmd, bfi_exit, iface, set_monitor_cmds, restore_cmds,
                tcpdump>>
camOwnVars == <<STOP_REQUESTED, cam_dev, frame_idx, rgb_pngs, caps_open,
                video, cam_exit>>
childVars == <<bfi_pc, bfiOwnVars, cam_pc, camOwnVars, bfi_log, log_exists,
               to_write>>

\* os.killpg(p.pid, sig): the signal is on its way to the group of p.
Killpg(p, sig) ==
    /\ sent' = Append(sent, Signal(p, sig, Polled(p), f_elapsed))
    /\ IF Polled(p)
       THEN UNCHANGED <<bfi_pending, cam_pending>>
       ELSE IF p = "bfi"
       THEN bfi_pending' = bfi_pending \cup {sig} /\ cam_pending' = cam_pending
       ELSE cam_pending' = cam_pending \cup {sig} /\ bfi_pending' = bfi_pending

NoKillpg == UNCHANGED <<sent, bfi_pending, cam_pending>>

\* terminate_process_group(p, name) is called.
CallTerminate(p) == f_pc' = "term_send" /\ f_target' = p /\ f_elapsed' = 0

\* interrupt_then_wait(p, name, timeout) is called.
CallInterrupt(p) == f_pc' = "int_send" /\ f_target' = p /\ f_elapsed' = 0

\* interrupt_then_wait or terminate_process_group returns to main: after
\* the camera's stop comes the finally block, after the finally block's
\* terminate_process_group(bfi_p, "BFI") the files are closed and
\* "[DONE] Session ended." is printed.
Return ==
    IF l_pc = "finally"
    THEN l_pc' = "done" /\ f_pc' = "none" /\ f_target' = "none" /\ f_elapsed' = 0
    ELSE l_pc' = "finally" /\ CallTerminate("bfi")

\* bfi_p, bfi_f = start_process(bfi_cmd, bfi_log, env=base_env);
\* start_line = wait_for_log_pattern(bfi_log, BFI_START_PATTERNS, ...) is called
LStartBfi ==
    /\ l_pc = "start_bfi"
    /\ bfi_pc' = "ask_user"
    /\ log_exists' = TRUE
    /\ WatchCall(BFI_START_PATTERNS, MaxTicks)
    /\ l_pc' = "wait_start"
    /\ NoKillpg
    /\ UNCHANGED <<f_pc, f_target, f_elapsed, start_line, stop_line,
                   interrupted, l_path, bfiOwnVars, cam_pc, camOwnVars,
                   bfi_log, to_write, picoOwnVars, analysisVars>>

\* start_line is there: None ends main through the finally block, a line
\* lets the camera start.
LStartLine ==
    /\ l_pc = "wait_start"
    /\ w_pc = "returned"
    /\ start_line' = w_result
    /\ w_pc' = "idle"
    /\ IF w_result.found
       THEN /\ l_pc' = "start_cam"
            /\ UNCHANGED <<f_pc, f_target, f_elapsed, l_path>>
       ELSE /\ l_pc' = "finally"
            /\ l_path' = "start timeout"
            /\ CallTerminate("bfi")
    /\ NoKillpg
    /\ UNCHANGED <<stop_line, interrupted, w_patterns, w_timeout, w_elapsed,
                   w_pos, w_result, childVars, picoOwnVars, analysisVars>>

\* cam_p, cam_f = start_process(cam_cmd, cam_log, env=cam_env);
\* stop_line = wait_for_log_pattern(bfi_log, BFI_STOP_PATTERNS, timeout_s=None)
\* is called
LStartCam ==
    /\ l_pc = "start_cam"
    /\ cam_pc' = "import"
    /\ WatchCall(BFI_STOP_PATTERNS, NoTimeout)
    /\ l_pc' = "wait_stop"
    /\ NoKillpg
    /\ UNCHANGED <<f_pc, f_target, f_elapsed, start_line, stop_line,
                   interrupted, l_path, bfi_pc, bfiOwnVars, camOwnVars,
                   bfi_log, log_exists, to_write, picoOwnVars, analysisVars>>

\* stop_line is there: interrupt_then_wait(cam_p, "Camera", ...) is called
LStopLine ==
    /\ l_pc = "wait_stop"
    /\ w_pc = "returned"
    /\ stop_line' = w_result
    /\ w_pc' = "idle"
    /\ l_pc' = "stop_cam"
    /\ CallInterrupt("cam")
    /\ NoKillpg
    /\ UNCHANGED <<start_line, interrupted, l_path, w_patterns, w_timeout,
                   w_elapsed, w_pos, w_result, childVars, picoOwnVars,
                   analysisVars>>

\* except KeyboardInterrupt: Ctrl+C while main is in its try block;
\* interrupt_then_wait(cam_p, "Camera", ...) is called, with cam_p still
\* None if the camera was not started.
LKeyboardInterrupt ==
    /\ l_pc \in {"wait_start", "start_cam", "wait_stop", "stop_cam"}
    /\ ~interrupted
    /\ interrupted' = TRUE
    /\ l_path' = "KeyboardInterrupt"
    /\ l_pc' = "except"
    /\ CallInterrupt(IF cam_pc = "none" THEN "none" ELSE "cam")
    /\ w_pc' = "idle"
    /\ NoKillpg
    /\ UNCHANGED <<start_line, stop_line, w_patterns, w_timeout, w_elapsed,
                   w_pos, w_result, childVars, picoOwnVars, analysisVars>>

\* Another exception while main waits for the stop line (an OSError of the
\* log read or of a print): no except clause takes it, the finally block
\* runs.
LException ==
    /\ l_pc = "wait_stop"
    /\ l_path = "normal"
    /\ l_path' = "exception"
    /\ l_pc' = "finally"
    /\ CallTerminate("bfi")
    /\ w_pc' = "idle"
    /\ NoKillpg
    /\ UNCHANGED <<start_line, stop_line, interrupted, w_patterns, w_timeout,
                   w_elapsed, w_pos, w_result, childVars, picoOwnVars,
                   analysisVars>>

\* interrupt_then_wait: if p is None or p.poll() is not None: return;
\* os.killpg(p.pid, signal.SIGINT); t0 = time.time()
FInterrupt ==
    /\ f_pc = "int_send"
    /\ IF f_target = "none" \/ Polled(f_target)
       THEN Return /\ NoKillpg
       ELSE /\ Killpg(f_target, "SIGINT")
            /\ f_pc' = "int_wait"
            /\ f_elapsed' = 0
            /\ UNCHANGED <<l_pc, f_target>>
    /\ UNCHANGED <<start_line, stop_line, interrupted, l_path, watchVars,
                   childVars, picoOwnVars, analysisVars>>

\* One turn of a wait loop: while time.time() - t0 < timeout:
\* if p.poll() is not None: return; time.sleep(0.1).  When the time is up
\* interrupt_then_wait calls terminate_process_group and
\* terminate_process_group goes on to its SIGKILL.
FWait ==
    /\ f_pc \in {"int_wait", "term_wait"}
    /\ IF f_elapsed < MaxTicks
       THEN IF Polled(f_target)
            THEN Return
            ELSE f_elapsed' = f_elapsed + 1 /\ UNCHANGED <<l_pc, f_pc, f_target>>
       ELSE /\ f_pc' = IF f_pc = "int_wait" THEN "term_send" ELSE "term_kill"
            /\ UNCHANGED <<l_pc, f_target, f_elapsed>>
    /\ NoKillpg
    /\ UNCHANGED <<start_line, stop_line, interrupted, l_path, watchVars,
                   childVars, picoOwnVars, analysisVars>>

\* terminate_process_group: if p is None or p.poll() is not None: return;
\* os.killpg(p.pid, signal.SIGTERM); t0 = time.time()
FTerminate ==
    /\ f_pc = "term_send"
    /\ IF f_target = "none" \/ Polled(f_target)
       THEN Return /\ NoKillpg
       ELSE /\ Killpg(f_target, "SIGTERM")
            /\ f_pc' = "term_wait"
            /\ f_elapsed' = 0
            /\ UNCHANGED <<l_pc, f_target>>
    /\ UNCHANGED <<start_line, stop_line, interrupted, l_path, watchVars,
                   childVars, picoOwnVars, analysisVars>>

\* terminate_process_group after its loop: os.killpg(p.pid, signal.SIGKILL),
\* and the function returns.
FKill ==
    /\ f_pc = "term_kill"
    /\ Killpg(f_target, "SIGKILL")
    /\ Return
    /\ UNCHANGED <<start_line, stop_line, interrupted, l_path, watchVars,
                   childVars, picoOwnVars, analysisVars>>

\* bfi_capture.py takes a pending signal: it installs no handler, so any of
\* them ends it, and with it the tcpdump of its process group.
BfiSignal ==
    /\ bfi_pc \notin {"none", "exited"}
    /\ \E sig \in bfi_pending :
          /\ bfi_pending' = bfi_pending \ {sig}
          /\ bfi_pc' = "exited"
          /\ bfi_exit' = "killed"
          /\ tcpdump' = IF tcpdump = "running" THEN "exited" ELSE tcpdump
    /\ UNCHANGED <<bfi_cmd, iface, set_monitor_cmds, restore_cmds, logVars,
                   analysisVars, picoVars, camVars, watchVars, launchVars>>

NextLauncher ==
    \/ LStartBfi
    \/ LStartLine
    \/ LStartCam
    \/ LStopLine
    \/ FInterrupt
    \/ FWait
    \/ FTerminate
    \/ FKill

NextWatcher ==
    \/ WatchWaitFile
    \/ WatchScan
    \/ WatchReadline
    \/ WatchNoLine

NextBfiChild ==
    \/ NextBfi
    \/ BfiSignal

NextCamChild ==
    \/ CamImport
    \/ CamOpen
    \/ CamLoop
    \/ CamRelease
    \/ CamPost
    \/ CamEncode
    \/ CamSignal

\* A session: the launcher, its two children, and the user at the terminal.
NextSession ==
    \/ NextLauncher
    \/ LKeyboardInterrupt
    \/ LException
    \/ NextWatcher
    \/ NextBfiChild
    \/ NextCamChild

\* The launcher is not running.
LauncherIdle ==
    /\ l_pc = "none"
    /\ f_pc = "none"
    /\ f_target = "none"
    /\ f_elapsed = 0
    /\ start_line = NotFound
    /\ stop_line = NotFound
    /\ bfi_pending = {}
    /\ interrupted = FALSE
    /\ l_path = "normal"

\* bfi_capture is not running.
BfiIdle ==
    /\ bfi_pc = "none"
    /\ bfi_cmd = 1
    /\ bfi_exit = "running"
    /\ iface = Adapter(TRUE, "managed", TRUE)
    /\ set_monitor_cmds = 0
    /\ restore_cmds = 0
    /\ tcpdump = "none"
    /\ bfi_pending = {}

LogIdle == bfi_log = <<>> /\ log_exists = FALSE /\ to_write = <<>>

ProcIdle ==
    BfiIdle /\ LogIdle /\ PicoIdle /\ CamIdle /\ WatchIdle /\ LauncherIdle

(***************************************************************************)
(* Captures the runs are checked on.                                       *)
(***************************************************************************)
\* Longest capture, in frames.
MaxFrames == 3

SeqsUpTo(S, n) == UNION {[1..k -> S] : k \in 0..n}

TargetBytes == PyList(<<36, 75, 254, 190, 255, 220>>)
Uni1 == PyList(<<2, 0, 0, 0, 0, 1>>)
Uni2 == PyList(<<4, 0, 0, 0, 0, 2>>)
Mcast == PyList(<<1, 0, 94, 0, 0, 1>>)
ZeroBytes == PyList(<<0, 0, 0, 0, 0, 0>>)
BcastBytes == PyList(<<255, 255, 255, 255, 255, 255>>)

GoodCsi == CsiBlock(PyList(<<<<1, 2>>>>), PyList(<<<<3>>, <<4>>>>))
TargetHdr == Hdr(Uni1, TargetBytes, Uni1)
BFrame(csi) == Frame(csi, TargetHdr, Absent, RxBasic(PyInt(100)))

\* Frames that differ in their CSI payload: no CSI key, a null CSI, two
\* tone counts, empty vectors, missing fields, a phase vector shorter than
\* the amplitude vector.
BuilderFrames ==
    { BFrame(Absent),
      BFrame(None),
      BFrame(GoodCsi),
      BFrame(CsiBlock(PyList(<<<<1, 2, 3>>>>), PyList(<<<<4, 5, 6>>>>))),
      BFrame(CsiBlock(PyList(<<>>), PyList(<<<<3, 4>>>>))),
      BFrame(CsiBlock(PyList(<<<<1, 2>>>>), PyList(<<>>))),
      BFrame(CsiBlock(Absent, PyList(<<<<3, 4>>>>))),
      BFrame(CsiBlock(PyList(<<<<1, 2>>>>), Absent)),
      BFrame(CsiBlock(PyList(<<<<5, 6>>>>), PyList(<<<<7>>>>))) }

\* " 24:4b:fe:be:ff:dc ": the target in lower case with surrounding blanks
TargetLowerSpaced ==
    PyStr(<<" ","2","4",":","4","b",":","f","e",":","b","e",":","f","f",":","d","c"," ">>)

Config(sc, tgt, use) == [script |-> sc, target |-> tgt, use |-> use]

BuilderConfigs ==
    { Config("csi_inspector", TARGET_TX_MAC, TRUE),
      Config("csi_inspector", None, FALSE),
      Config("complete_csi", None, FALSE),
      Config("csi_metadata", None, FALSE),
      Config("csi_viz", None, FALSE),
      Config("csi", None, FALSE) }

\* Frames that differ in their addresses: no header, the target as
\* transmitter to unicast, multicast and other receivers, a sentinel
\* receiver, the target seen only as receiver, a frame without CSI, the
\* lower-case key spellings, and an empty Addr1 beside a valid addr1.
AddrFrames ==
    { Frame(GoodCsi, Absent, Absent, RxBasic(PyInt(100))),
      Frame(GoodCsi, Hdr(Uni1, TargetBytes, Uni1), Absent, RxBasic(PyInt(200))),
      Frame(GoodCsi, Hdr(Uni2, TargetBytes, ZeroBytes), Absent, RxBasic(PyInt(300))),
      Frame(GoodCsi, Hdr(Mcast, TargetBytes, BcastBytes), Absent, RxBasic(PyInt(400))),
      Frame(GoodCsi, Hdr(BcastBytes, Uni2, ZeroBytes), Absent, RxBasic(PyInt(500))),
      Frame(GoodCsi, Hdr(TargetBytes, ZeroBytes, Uni1), Absent, RxBasic(PyInt(600))),
      Frame(Absent, Hdr(Uni1, TargetBytes, Uni1), Absent, RxBasic(PyInt(700))),
      Frame(CsiBlock(PyList(<<>>), PyList(<<<<3, 4>>>>)), Absent,
            HdrLower(Uni1, Uni2, PyList(<<1, 2>>)), RxBasic(PyInt(800))),
      Frame(GoodCsi,
            PyDict([Addr1 |-> PyList(<<>>), addr1 |-> Uni1, Addr2 |-> TargetBytes,
                    addr2 |-> Absent, Addr3 |-> Absent, addr3 |-> Absent]),
            Absent, RxBasic(PyInt(900))) }

AddrConfigs ==
    { Config("csi_inspector", TARGET_TX_MAC, TRUE),
      Config("csi_inspector", TargetLowerSpaced, TRUE),
      Config("csi_inspector", BCAST_MAC, TRUE),
      Config("csi_inspector", None, TRUE),
      Config("csi_inspector", TARGET_TX_MAC, FALSE),
      Config("complete_csi", None, FALSE),
      Config("csi_metadata", None, FALSE),
      Config("csi", None, FALSE) }

\* Frames that differ in their timestamps: three clock values, no RxSBasic
\* block, a frame the builder drops, and a timestamp given as an array.
TimeFrames ==
    { Frame(GoodCsi, TargetHdr, Absent, RxBasic(PyInt(100))),
      Frame(GoodCsi, TargetHdr, Absent, RxBasic(PyInt(300))),
      Frame(GoodCsi, TargetHdr, Absent, RxBasic(PyInt(250))),
      Frame(GoodCsi, TargetHdr, Absent, Absent),
      Frame(CsiBlock(PyList(<<>>), PyList(<<<<3, 4>>>>)), TargetHdr, Absent,
            RxBasic(PyInt(200))),
      Frame(GoodCsi, TargetHdr, Absent, RxBasic(PyList(<<100, 7>>))) }

TimeConfigs ==
    { Config("csi_inspector", None, FALSE),
      Config("complete_csi", None, FALSE),
      Config("csi_metadata", None, FALSE),
      Config("csi", None, FALSE) }

MetaFrame(csi) == Frame(csi, TargetHdr, Absent, RxBasic(PyInt(100)))

GoodMag == PyList(<<<<1, 2>>>>)
GoodPhase == PyList(<<<<3, 4>>>>)

\* Frames that differ in their metadata: indices and tone spacing present,
\* spacing missing, lower-case keys, a frame the builder drops (empty Mag)
\* with indices of its own, zero spacing, empty indices, null spacing.
MetaFrames ==
    { MetaFrame(CsiMeta(GoodMag, GoodPhase, PyList(<<-1, 1>>), Absent, PyInt(5), Absent)),
      MetaFrame(CsiMeta(GoodMag, GoodPhase, PyList(<<-2, 2>>), Absent, Absent, Absent)),
      MetaFrame(CsiMeta(GoodMag, GoodPhase, Absent, PyList(<<-1, 1>>), Absent, PyInt(5))),
      MetaFrame(CsiMeta(PyList(<<>>), GoodPhase, PyList(<<-3, 3>>), Absent, PyInt(7), Absent)),
      MetaFrame(CsiMeta(GoodMag, GoodPhase, PyList(<<-1, 1>>), Absent, PyInt(0), Absent)),
      MetaFrame(CsiMeta(GoodMag, GoodPhase, PyList(<<>>), Absent, PyInt(5), Absent)),
      MetaFrame(CsiMeta(GoodMag, GoodPhase, PyList(<<-1, 1>>), Absent, None, Absent)) }

MetaConfigs ==
    { Config("csi_inspector", None, FALSE),
      Config("complete_csi", None, FALSE),
      Config("csi_metadata", None, FALSE) }

\* Longest tshark output, in lines.
MaxLines == 3

\* Lines tshark may print: times in any order, equal times, blank lines.
StaLines == {BlankLine, TimeLine(0), TimeLine(1), TimeLine(2), TimeLine(5)}

\* Runs over captures that differ in their CSI payloads.
Init ==
    \E fs \in SeqsUpTo(BuilderFrames, MaxFrames), cfg \in BuilderConfigs :
        Start(cfg.script, fs, cfg.target, cfg.use) /\ times = <<>> /\ ProcIdle

\* Runs over captures that differ in their addresses.
InitAddr ==
    \E fs \in SeqsUpTo(AddrFrames, MaxFrames), cfg \in AddrConfigs :
        Start(cfg.script, fs, cfg.target, cfg.use) /\ times = <<>> /\ ProcIdle

\* Runs over captures that differ in their timestamps.
InitTime ==
    \E fs \in SeqsUpTo(TimeFrames, MaxFrames), cfg \in TimeConfigs :
        Start(cfg.script, fs, cfg.target, cfg.use) /\ times = <<>> /\ ProcIdle

\* Runs over captures that differ in their metadata.
InitMeta ==
    \E fs \in SeqsUpTo(MetaFrames, MaxFrames), cfg \in MetaConfigs :
        Start(cfg.script, fs, cfg.target, cfg.use) /\ times = <<>> /\ ProcIdle

\* The most tones of a phase row, and the phases a tone may hold: two
\* periods around zero, so that a row may wrap more than once.
MaxTones == 3
PhaseValues == (-2 * PI)..(2 * PI)
PhaseRows == UNION {[1..k -> PhaseValues] : k \in 1..MaxTones}

UnwrapFrame(p) ==
    Frame(CsiBlock(PyList(<<[k \in 1..Len(p) |-> 1]>>), PyList(<<p>>)),
          TargetHdr, Absent, RxBasic(PyInt(100)))

\* csi_inspector over captures of one frame that differ in the phase row.
InitUnwrap ==
    \E p \in PhaseRows :
        Start("csi_inspector", <<UnwrapFrame(p)>>, None, FALSE) /\ times = <<>> /\ ProcIdle

\* Frames that differ in their amplitude vector: the two rows of the
\* worked example, a row of equal values, a row with a zero, a shorter row.
MeanFrame(mag) ==
    Frame(CsiBlock(PyList(<<mag>>), PyList(<<[k \in 1..Len(mag) |-> 0]>>)),
          TargetHdr, Absent, RxBasic(PyInt(100)))

MeanFrames ==
    { MeanFrame(<<1, 2, 3>>), MeanFrame(<<4, 5, 6>>), MeanFrame(<<2, 2, 2>>),
      MeanFrame(<<0, 7, 1>>), MeanFrame(<<1, 2>>) }

MeanConfigs ==
    { Config("csi_inspector", None, FALSE),
      Config("complete_csi", None, FALSE) }

\* Runs over captures that differ in their amplitudes.
InitMean ==
    \E fs \in SeqsUpTo(MeanFrames, MaxFrames), cfg \in MeanConfigs :
        Start(cfg.script, fs, cfg.target, cfg.use) /\ times = <<>> /\ ProcIdle

\* bfi_capture.py started by hand, on an adapter in any state.
InitBfiMain ==
    /\ Start("bfi_capture_main", <<>>, None, FALSE) /\ times = <<>>
    /\ bfi_pc = "ask_user"
    /\ bfi_cmd = 1
    /\ bfi_exit = "running"
    /\ iface \in {Adapter(nm, "managed", up) : nm, up \in BOOLEAN}
    /\ set_monitor_cmds = 0
    /\ restore_cmds = 0
    /\ tcpdump = "none"
    /\ bfi_pending = {}
    /\ LogIdle /\ PicoIdle /\ CamIdle /\ WatchIdle /\ LauncherIdle

\* camera.py started by hand or by the launcher.
InitCam ==
    /\ Start("camera", <<>>, None, FALSE) /\ times = <<>>
    /\ BfiIdle /\ LogIdle /\ PicoIdle /\ WatchIdle /\ LauncherIdle
    /\ cam_pc = "import"
    /\ STOP_REQUESTED = FALSE
    /\ cam_dev = 1
    /\ frame_idx = 0
    /\ rgb_pngs = 0
    /\ caps_open = {}
    /\ video = "none"
    /\ cam_exit = "running"
    /\ cam_pending = {}

RECURSIVE Flatten(_)
Flatten(lines) == IF lines = <<>> THEN <<>> ELSE Head(lines) \o Flatten(Tail(lines))

\* What a run of bfi_capture may write: up to the saved capture, up to the
\* missing capture file, up to a failing command, and a log that only
\* looks like one with markers.
LogTexts ==
    { Flatten(<<OtherLine, ObservingLine, StartedLine, SavedLine>>),
      Flatten(<<ObservingLine, StartedLine, NoCaptureFileLine>>),
      Flatten(<<OtherLine, OtherLine>>),
      Flatten(<<LineOf(<<"[CAPTURE]", "Started">>), StartedLine>>) }

\* wait_for_log_pattern on a log written meanwhile, in writes of any size.
InitWatch ==
    /\ Start("run_bfi_and_camera", <<>>, None, FALSE) /\ times = <<>>
    /\ BfiIdle /\ PicoIdle /\ CamIdle /\ LauncherIdle
    /\ bfi_log = <<>>
    /\ log_exists = FALSE
    /\ to_write \in LogTexts
    /\ w_pc = "wait_file"
    /\ w_patterns \in {BFI_START_PATTERNS, BFI_STOP_PATTERNS}
    /\ w_timeout \in {NoTimeout, MaxTicks}
    /\ w_elapsed = 0
    /\ w_pos = 0
    /\ w_result = NotFound

\* run_bfi_and_camera.py started at a terminal.
InitSession ==
    /\ Start("run_bfi_and_camera", <<>>, None, FALSE) /\ times = <<>>
    /\ BfiIdle /\ LogIdle /\ PicoIdle /\ CamIdle /\ WatchIdle
    /\ l_pc = "start_bfi"
    /\ f_pc = "none"
    /\ f_target = "none"
    /\ f_elapsed = 0
    /\ start_line = NotFound
    /\ stop_line = NotFound
    /\ interrupted = FALSE
    /\ l_path = "normal"

\* picoscenes_csi_collection.py started by hand.
InitPico ==
    /\ Start("picoscenes_csi_collection", <<>>, None, FALSE) /\ times = <<>>
    /\ BfiIdle /\ LogIdle /\ CamIdle /\ WatchIdle /\ LauncherIdle
    /\ pico_pc = "validate_environment"
    /\ pico_cmd = 1
    /\ pico_exit = "running"
    /\ pico_raising = FALSE
    /\ wifi_radio = TRUE
    /\ disable_cmds = 0
    /\ restore_wifi_cmds = 0
    /\ logger = "none"
    /\ logger_pending = {}
    /\ pico_elapsed = 0
    /\ sent = <<>>

\* sta_stats over the outputs tshark may give for one link.
InitSta ==
    \E lines \in SeqsUpTo(StaLines, MaxLines) :
        Start("bfi_capture", <<>>, None, FALSE) /\ times = lines /\ ProcIdle

Spec == Init /\ [][Next]_vars

SpecTime == InitTime /\ [][Next]_vars

SpecMeta == InitMeta /\ [][Next]_vars

SpecSta == InitSta /\ [][NextSta]_vars

SpecUnwrap == InitUnwrap /\ [][Next]_vars

SpecMean == InitMean /\ [][Next]_vars

SpecBfiMain == InitBfiMain /\ [][NextBfi]_vars

SpecPico == InitPico /\ [][NextPico]_vars

SpecCam == InitCam /\ [][NextCam]_vars

SpecWatch == InitWatch /\ [][NextWatch]_vars

SpecSession == InitSession /\ [][NextSession]_vars

SpecAddr == InitAddr /\ [][Next]_vars

(***************************************************************************)
(* Properties.  The notions below are read off the frames themselves.      *)
(***************************************************************************)
\* The builder has gone through every frame it was given.
BuildDone == pc \in {"stack", "report"} \/ (pc = "done" /\ Len(csi_frames_used) > 0
                                            /\ outcome.what # "EmptyAfterAddressFilter")

\* The CSI block of frame n has the field as a list (it is not missing).
HasField(n, k) == IsDict(Get(frames[n], "CSI")) /\ Get(frames[n], "CSI").v[k].tag = "list"

\* Number of values in a field of frame n, counted over its rows.
FieldLen(n, k) == Len(ConcatRows(Get(frames[n], "CSI").v[k].v))

\* Frame n carries an amplitude and a phase vector of K values each.
HasVectorsOfLen(n, K) ==
    /\ HasField(n, "Mag") /\ HasField(n, "Phase")
    /\ FieldLen(n, "Mag") = K /\ FieldLen(n, "Phase") = K

\* C1: the rows of the output matrix are exactly the frames whose flattened
\* CSI vectors (amplitude and phase) have the length of the first accepted
\* frame, one row per such frame, in arrival order; every other frame is
\* dropped, so every row has the same tone count.
C1_RowsAreMatchingFrames ==
    (BuildDone /\ Len(Amp_list) > 0) =>
        LET K == Len(Amp_list[1].data)
        IN  /\ row_src = SelectSeq(csi_frames_used, LAMBDA n : HasVectorsOfLen(n, K))
            /\ \A r \in 1..Len(Amp_list) :
                  Len(Amp_list[r].data) = K /\ Len(Phase_list[r].data) = K

\* C2: the amplitude and the phase matrix have the same shape: one
\* amplitude row and one phase row per accepted frame, all rows of both of
\* one length.
C2_SameShape ==
    /\ Len(Amp_list) = Len(Phase_list)
    /\ \A r \in 1..Len(Amp_list), q \in 1..Len(Phase_list) :
          Len(Amp_list[r].data) = Len(Phase_list[q].data)
    /\ (Amp # None =>
          /\ Phase # None
          /\ Len(Amp.v) = Len(Phase.v)
          /\ \A r \in 1..Len(Amp.v) : Len(Amp.v[r].data) = Len(Phase.v[r].data))

\* No frame of the capture carries a CSI payload (a dict under "CSI").
NoCsiPayload == \A n \in 1..Len(frames) : ~IsDict(Get(frames[n], "CSI"))

NoMatrix == Amp = None /\ Phase = None /\ Amp_list = <<>> /\ Phase_list = <<>>

\* C3: in the scripts that build matrices, a capture without any CSI
\* payload ends in NoCsiFrames straight from the frame filter, and no
\* amplitude or phase row or matrix is ever built.
C3_NoCsiFramesNoMatrix ==
    (script # "csi" /\ NoCsiPayload) =>
        /\ pc \in {"filter", "done"}
        /\ (pc = "done" => outcome.what = "NoCsiFrames")
        /\ NoMatrix

C3_Witness ==
    /\ script # "csi" /\ NoCsiPayload /\ Len(frames) >= 2
    /\ \E n \in 1..Len(frames) : HasKey(frames[n], "CSI")
    /\ pc = "done" /\ outcome.what = "NoCsiFrames"

\* Frame n offers an amplitude and a phase vector, neither of them empty.
HasBothVectors(n) ==
    /\ HasField(n, "Mag") /\ HasField(n, "Phase")
    /\ FieldLen(n, "Mag") > 0 /\ FieldLen(n, "Phase") > 0

\* The capture has no CSI-bearing frame.
CondNoCsi == NoCsiPayload

\* A target was applied (requested and observed) and no CSI-bearing frame
\* has it as transmitter.
CondNoMatch ==
    LET T == TargetOf(script, target_tx_mac)
    IN  /\ ~CondNoCsi
        /\ use_tx_filter /\ Truthy(T) /\ T \in all_macs
        /\ \A n \in 1..Len(frames) :
              IsDict(Get(frames[n], "CSI")) => FrameTx(script, frames[n]) # T

\* Frames were used, and none of them offers a valid Mag/Phase row.
CondNoRows ==
    /\ ~CondNoCsi /\ ~CondNoMatch
    /\ \A k \in 1..Len(csi_frames_used) : ~HasBothVectors(csi_frames_used[k])

\* C4: csi_inspector ends every run in exactly one of NoCsiFrames (no
\* CSI-bearing frame), EmptyAfterAddressFilter (target applied, no frame
\* matched), NoValidMatrixRows (frames used, none with a valid Mag/Phase
\* row) or success, each exactly under its condition, and in the three
\* empty outcomes no matrix, frame statistic or summary is produced.
C4_DistinctEmptyOutcomes ==
    (script = "csi_inspector" /\ pc = "done") =>
        /\ (outcome.what = "NoCsiFrames") <=> CondNoCsi
        /\ (outcome.what = "EmptyAfterAddressFilter") <=> CondNoMatch
        /\ (outcome.what = "NoValidMatrixRows") <=> CondNoRows
        /\ (outcome.what = "Success") <=> ~(CondNoCsi \/ CondNoMatch \/ CondNoRows)
        /\ ((CondNoCsi \/ CondNoMatch \/ CondNoRows) =>
              /\ Amp = None /\ Phase = None
              /\ outputs \cap {"frame_stats.csv", "csi_summary.txt"} = {})

\* Tone count of the first frame used that offers two vectors of one length.
WellFormedAlone(n) == HasBothVectors(n) /\ FieldLen(n, "Mag") = FieldLen(n, "Phase")

FirstWellFormed ==
    CHOOSE k \in 1..Len(csi_frames_used) :
        /\ WellFormedAlone(csi_frames_used[k])
        /\ \A j \in 1..(k - 1) : ~WellFormedAlone(csi_frames_used[j])

\* C5: a frame with a missing Mag or Phase field, an empty vector or a
\* vector of the wrong length gives no row and does not abort the run, and
\* the well-formed frames before and after it are still made rows.
C5_MalformedFrameSkipped ==
    (script # "csi") =>
        /\ \A r \in 1..Len(row_src) :
              /\ HasBothVectors(row_src[r])
              /\ HasVectorsOfLen(row_src[r], Len(Amp_list[1].data))
        /\ (outcome.how = "raise" => outcome.what \in {"NoCsiFrames", "NoValidMatrixRows"})
        /\ ((BuildDone /\ \E k \in 1..Len(csi_frames_used) : WellFormedAlone(csi_frames_used[k])) =>
              LET K == FieldLen(csi_frames_used[FirstWellFormed], "Mag")
              IN  \A k \in 1..Len(csi_frames_used) :
                     HasVectorsOfLen(csi_frames_used[k], K) =>
                        \E r \in 1..Len(row_src) : row_src[r] = csi_frames_used[k])

\* C6: the set of distinct addresses never holds the all-zero or the
\* broadcast address, in any script that builds it.
C6_NoSentinelInAllMacs == ZERO_MAC \notin all_macs /\ BCAST_MAC \notin all_macs

IsSentinelStr(m) == m = ZERO_MAC \/ m = BCAST_MAC

\* C7: neither side of the first-pair primary link, nor the by-count
\* primary receiver, nor the transmitter or receiver written to the summary
\* is the all-zero or the broadcast address.
C7_PrimaryNeverSentinel ==
    /\ ~IsSentinelStr(tx_primary_firstpair)
    /\ ~IsSentinelStr(rx_primary_firstpair)
    /\ ~IsSentinelStr(rx_primary_bycount)
    /\ ~IsSentinelStr(reported_tx_mac)
    /\ ~IsSentinelStr(reported_rx_mac)

\* Receiver / transmitter bytes of frame n as the header gives them.
RxBytes(n) ==
    LET sh == StdHeader(script, frames[n])
    IN  IF IsDict(sh) THEN Slot(sh, "Addr1", "addr1") ELSE None

TxBytes(n) ==
    LET sh == StdHeader(script, frames[n])
    IN  IF IsDict(sh) THEN Slot(sh, "Addr2", "addr2") ELSE None

\* A run of csi_inspector asked for the broadcast address as target, over a
\* capture whose first frame has a sentinel receiver, and wrote a summary
\* naming both identities.
C7_Witness ==
    /\ script = "csi_inspector" /\ target_tx_mac = BCAST_MAC /\ use_tx_filter
    /\ Len(frames) >= 2 /\ RxBytes(1) = BcastBytes
    /\ pc = "done" /\ outcome.what = "Success"
    /\ reported_tx_mac # None /\ reported_rx_mac # None

\* First octet of a MAC string, from its two leading hexadecimal digits.
FirstOctet(m) == HexVal(m.v[1]) * 16 + HexVal(m.v[2])

UnicastStr(m) == m # None /\ ~IsSentinelStr(m) /\ FirstOctet(m) % 2 = 0

\* C8: is_valid_unicast accepts an address only if it is neither sentinel
\* and bit 0 of its first octet is 0; so every receiver tallied after target
\* filtering, and the primary receiver chosen from the tally, has that bit 0.
C8_UnicastBitClear ==
    /\ \A n \in 1..Len(frames) :
          (RxBytes(n).tag = "list" /\ Len(RxBytes(n).v) >= 6
             /\ is_valid_unicast(norm_mac(mac_to_str(RxBytes(n))))) =>
                /\ RxBytes(n).v[1] % 2 = 0
                /\ RxBytes(n) # ZeroBytes /\ RxBytes(n) # BcastBytes
    /\ \A k \in 1..Len(rx_list_unicast) : UnicastStr(rx_list_unicast[k])
    /\ (rx_primary_bycount # None => UnicastStr(rx_primary_bycount))

\* The filter kept a frame sent to a multicast receiver and still chose a
\* primary receiver.
C8_Witness ==
    /\ pc = "done" /\ rx_primary_bycount # None
    /\ \E k \in 1..Len(csi_frames_used) : RxBytes(csi_frames_used[k]) = Mcast

\* Frame n offers a TX/RX pair whose two sides convert to addresses that are
\* not sentinels.
ValidSide(b) ==
    /\ b.tag = "list" /\ Len(b.v) >= 6
    /\ \E k \in 1..6 : b.v[k] # 0
    /\ \E k \in 1..6 : b.v[k] # 255

ValidPair(n) == ValidSide(RxBytes(n)) /\ ValidSide(TxBytes(n))

\* Frames the address loop has gone through.
MacsDone ==
    CASE pc = "filter" -> 0
      [] pc = "macs" -> i - 1
      [] pc = "done" /\ outcome.what = "NoCsiFrames" -> 0
      [] OTHER -> Len(frames)

PairScripts == {"csi_inspector", "complete_csi", "csi"}

\* C9: at every point of the address loop the primary link is the pair of
\* the earliest frame gone through, over all frames in capture order, whose
\* receiver and transmitter are both valid and not sentinels (so a later
\* frame never changes it), and it is absent exactly when no frame gone
\* through has such a pair.
C9_PrimaryIsFirstValidPair ==
    (script \in PairScripts) =>
        IF \E n \in 1..MacsDone : ValidPair(n)
        THEN LET m == CHOOSE n \in 1..MacsDone :
                        ValidPair(n) /\ \A j \in 1..(n - 1) : ~ValidPair(j)
             IN  /\ tx_primary_firstpair = mac_to_str(TxBytes(m))
                 /\ rx_primary_firstpair = mac_to_str(RxBytes(m))
        ELSE tx_primary_firstpair = None /\ rx_primary_firstpair = None

\* The first frame offers no valid pair, the second does, the third offers
\* another one, and the loop is over.
C9_Witness ==
    /\ script \in PairScripts /\ Len(frames) = 3 /\ MacsDone = 3
    /\ StdHeader(script, frames[1]).tag = "dict" /\ ~ValidPair(1)
    /\ ValidPair(2) /\ ValidPair(3)
    /\ mac_to_str(RxBytes(3)) # mac_to_str(RxBytes(2))
    /\ rx_primary_firstpair = mac_to_str(RxBytes(2))

\* The target stage has run.
TargetDone ==
    \/ pc \in {"timestamps", "build", "stack", "report"}
    \/ (pc = "done" /\ outcome.what # "NoCsiFrames")

\* The CSI-bearing frames whose transmitter is the requested target.
FramesOfTarget ==
    SelectSeq([n \in 1..Len(frames) |-> n],
              LAMBDA n : /\ IsDict(Get(frames[n], "CSI"))
                         /\ TxBytes(n).tag = "list" /\ Len(TxBytes(n).v) >= 6
                         /\ mac_to_str(TxBytes(n)) = TargetOf(script, target_tx_mac))

\* C10: when a target transmitter is supplied and is in the observed address
\* set, the frames used are exactly the CSI-bearing frames whose transmitter
\* equals the target, in order; the timestamps are those of these frames and
\* every matrix row comes from one of them.
C10_UsedFramesAreTargets ==
    (/\ script \in {"csi_inspector", "csi_metadata"}
     /\ TargetDone
     /\ TargetRequested(script, use_tx_filter, TargetOf(script, target_tx_mac))
     /\ TargetOf(script, target_tx_mac) \in all_macs) =>
        /\ csi_frames_used = FramesOfTarget
        /\ (pc \in {"build", "stack", "report"} \/ (pc = "done" /\ Len(csi_frames_used) > 0) =>
              timestamps = [k \in 1..Len(FramesOfTarget) |->
                              Get(frames[FramesOfTarget[k]], "RxSBasic").v.Timestamp.v])
        /\ \A r \in 1..Len(row_src) : \E k \in 1..Len(FramesOfTarget) : FramesOfTarget[k] = row_src[r]

\* A target given in lower case with blanks was observed; one CSI frame of
\* another transmitter was left out and one frame of the target was used.
C10_Witness ==
    /\ script = "csi_inspector" /\ target_tx_mac = TargetLowerSpaced /\ use_tx_filter
    /\ pc = "done" /\ outcome.what = "Success"
    /\ Len(csi_frames_used) > 0 /\ Len(csi_frames_used) < Len(csi_frames_all)
    /\ Len(timestamps) = Len(csi_frames_used)

\* The target was requested and observed, and the target stage has run.
TargetApplied ==
    /\ script \in {"csi_inspector", "csi_metadata"}
    /\ TargetDone
    /\ TargetRequested(script, use_tx_filter, TargetOf(script, target_tx_mac))
    /\ TargetOf(script, target_tx_mac) \in all_macs

\* The receiver bytes are a valid unicast address: six bytes, not all zero,
\* not all ones, first byte even.
UnicastBytes(b) == ValidSide(b) /\ b.v[1] % 2 = 0

\* Receivers of the restricted frames that are valid unicast addresses.
RestrictedReceivers ==
    {mac_to_str(RxBytes(FramesOfTarget[k])) :
        k \in {j \in 1..Len(FramesOfTarget) : UnicastBytes(RxBytes(FramesOfTarget[j]))}}

\* Number of restricted frames received by m.
RestrictedCount(m) ==
    Cardinality({k \in 1..Len(FramesOfTarget) :
                    /\ UnicastBytes(RxBytes(FramesOfTarget[k]))
                    /\ mac_to_str(RxBytes(FramesOfTarget[k])) = m})

\* C11: after target filtering the primary receiver is a valid-unicast
\* receiver of the restricted frames whose frame count is at least that of
\* every other valid-unicast receiver, and it is absent exactly when no
\* restricted frame has a valid-unicast receiver.
C11_PrimaryReceiverMostFrequent ==
    TargetApplied =>
        IF RestrictedReceivers = {}
        THEN rx_primary_bycount = None
        ELSE /\ rx_primary_bycount \in RestrictedReceivers
             /\ \A m \in RestrictedReceivers :
                   RestrictedCount(rx_primary_bycount) >= RestrictedCount(m)

\* The first restricted frame went to one receiver, two later ones to
\* another, and the latter is the primary receiver.
C11_Witness ==
    /\ TargetApplied /\ pc = "done" /\ Len(FramesOfTarget) = 3
    /\ Cardinality(RestrictedReceivers) = 2
    /\ rx_primary_bycount # None
    /\ rx_primary_bycount # mac_to_str(RxBytes(FramesOfTarget[1]))

\* The frames of the capture that carry a CSI payload, in capture order.
CsiBearingFrames ==
    SelectSeq([n \in 1..Len(frames) |-> n], LAMBDA n : IsDict(Get(frames[n], "CSI")))

\* A target was requested, no address of the capture equals it, and the
\* target stage has run.
TargetMissed ==
    /\ script \in {"csi_inspector", "csi_metadata"}
    /\ TargetDone
    /\ TargetRequested(script, use_tx_filter, TargetOf(script, target_tx_mac))
    /\ TargetOf(script, target_tx_mac) \notin all_macs

\* C12: when the requested target is never observed, the frames used are
\* all the CSI-bearing frames, the TargetNotObserved warning is given, and
\* the run goes on to the timestamps instead of ending at the target stage.
C12_TargetNotObservedFallsBack ==
    TargetMissed =>
        /\ csi_frames_used = CsiBearingFrames
        /\ "TargetNotObserved" \in warnings
        /\ outcome.what # "EmptyAfterAddressFilter"
        /\ (pc = "done" => "timestamps.txt" \in outputs)

\* csi_inspector was asked for a target no frame carries, used both CSI
\* frames of a capture that also holds a frame without CSI, and ended well.
C12_Witness ==
    /\ TargetMissed /\ script = "csi_inspector"
    /\ pc = "done" /\ outcome.what = "Success"
    /\ Len(csi_frames_used) = 2 /\ Len(frames) = 3
    /\ \E n \in 1..Len(frames) : ValidPair(n)

\* The timestamp stage has run.
TimesDone ==
    \/ pc \in {"build", "stack", "report"}
    \/ (pc = "done" /\ outcome.what \notin {"NoCsiFrames", "EmptyAfterAddressFilter"})

\* Largest minus smallest timestamp, in microseconds.
StampSpread ==
    LET S == {timestamps[k] : k \in 1..Len(timestamps)}
    IN  (CHOOSE hi \in S : \A x \in S : x <= hi) - (CHOOSE lo \in S : \A x \in S : lo <= x)

\* v is the fraction a / b
IsFraction(v, a, b) == v # None /\ v.den > 0 /\ v.num * b = a * v.den

\* C13: with fewer than two timestamps the capture duration and the rate
\* are both absent (None, written as N/A), never zero; with two or more the
\* duration is (max - min) of the timestamps, in seconds.
C13_DurationUndefinedBelowTwo ==
    (script \in RateScripts /\ TimesDone) =>
        /\ (Len(timestamps) < 2 =>
              /\ time_span_sec = None /\ csi_rate = None
              /\ (summary_timing # None =>
                    /\ summary_timing.duration = NA
                    /\ summary_timing.rate \in {NA, Absent}))
        /\ (Len(timestamps) >= 2 =>
              /\ IsFraction(time_span_sec, StampSpread, 1000000)
              /\ (summary_timing # None => summary_timing.duration = time_span_sec))

\* Two frames were used, only one of them carried a timestamp, and the
\* summary was written.
C13_Witness ==
    /\ script \in RateScripts /\ pc = "done" /\ outcome.what = "Success"
    /\ Len(csi_frames_used) >= 2 /\ Len(timestamps) = 1
    /\ summary_timing # None /\ summary_timing.duration = NA

\* The run is over and the matrices were built.
MatrixBuilt == pc = "done" /\ outcome.what = "Success" /\ Amp # None

\* C14: the rate is the number of frames accepted into the CSI matrix
\* divided by the duration, and it is absent whenever the duration is zero
\* or undefined or fewer than two frames were accepted.
C14_RateIsAcceptedCountOverDuration ==
    (script \in {"csi_inspector", "complete_csi"} /\ MatrixBuilt) =>
        IF Len(timestamps) >= 2 /\ StampSpread > 0 /\ Len(row_src) >= 2
        THEN IsFraction(csi_rate, Len(row_src) * 1000000, StampSpread)
        ELSE csi_rate = None

\* The deltas of a script that computes them are n-1 non-negative steps in
\* seconds that add up to max - min of the timestamps.
DeltasOfSorted ==
    /\ dt # None
    /\ Len(dt.v) = Len(timestamps) - 1
    /\ \A k \in 1..Len(dt.v) : dt.v[k].den = 1000000 /\ dt.v[k].num >= 0
    /\ SumNum(dt.v) = StampSpread

\* C15: the inter-arrival deltas are the consecutive differences of the
\* timestamps sorted ascending: n-1 deltas for n >= 2 timestamps in any
\* arrival order, each >= 0, summing to max - min; with fewer than two
\* timestamps the deltas, their statistics and the derived FPS are undefined.
C15_DeltasOfSortedTimestamps ==
    (script \in {"csi_inspector", "complete_csi"} /\ TimesDone) =>
        IF Len(timestamps) >= 2
        THEN DeltasOfSorted
        ELSE dt = None /\ dt_stats = None /\ fps = None

\* The times tshark printed, blank lines left out.
PrintedTimes == SelectSeq(times, LAMBDA x : x # BlankLine)

\* Largest minus smallest printed time.
PrintedSpread ==
    LET S == {PrintedTimes[k].t : k \in 1..Len(PrintedTimes)}
    IN  (CHOOSE hi \in S : \A x \in S : x <= hi) - (CHOOSE lo \in S : \A x \in S : lo <= x)

\* C16: sta_stats returns the number of samples as count, max - min of the
\* timestamps as duration (zero below two samples) and count / duration as
\* rate (zero when the duration is zero), and never divides by zero.
C16_StaStats ==
    (script = "bfi_capture" /\ pc = "done") =>
        LET n == Len(PrintedTimes)
            d == IF n < 2 THEN 0 ELSE PrintedSpread
        IN  /\ sta_result.count = n
            /\ IsFraction(sta_result.dur, d, 1)
            /\ sta_result.rate.den # 0
            /\ IF d = 0 THEN sta_result.rate.num = 0
               ELSE IsFraction(sta_result.rate, n, d)

\* The CSI block of frame n gives a tone spacing that is a number other
\* than zero, under either key spelling.
HasSpacing(n) ==
    LET c == Get(frames[n], "CSI")
    IN  \E k \in {"SubcarrierBandwidth", "subcarrierBandwidth"} :
           c.v[k].tag = "int" /\ c.v[k].v # 0

\* C17: when the tone spacing is missing or zero (in every frame used), the
\* frequency offsets are not derived: no frequency map and no frequency plot
\* are written, the skip is reported, and the summary is still written.
C17_NoSpacingSkipsFrequencyMap ==
    (/\ script \in FreqScripts /\ MatrixBuilt
     /\ \A k \in 1..Len(csi_frames_used) : ~HasSpacing(csi_frames_used[k])) =>
        /\ freq_offsets = None
        /\ outputs \cap {"frequency_map.csv", "freq_amp_plot.png"} = {}
        /\ "FrequencyMappingSkipped" \in warnings
        /\ "csi_summary.txt" \in outputs

\* C18: the subcarrier indices and the frequency offsets are those of the
\* metadata of the frame that supplies row 0 of the matrix, not of a frame
\* the builder skipped.
C18_MetadataOfFirstRow ==
    (script \in FreqScripts /\ MatrixBuilt) =>
        LET c == Get(frames[row_src[1]], "CSI")
        IN  /\ sub_idx = SubIdx(script, c)
            /\ freq_offsets = FreqOffsets(script, c)

\* The frames of a capture whose CSI payload is a mapping, in capture order.
MappingFrames(fs) ==
    SelectSeq([n \in 1..Len(fs) |-> n], LAMBDA n : IsDict(Get(fs[n], "CSI")))

\* C19: in every script that selects CSI-bearing frames, csi.py included,
\* the frame filter returns exactly the frames whose CSI payload is present
\* and is a mapping, in the original order, and leaves the input unmodified.
C19_FilterKeepsMappingFrames ==
    [][pc = "filter" =>
          /\ csi_frames_all' = MappingFrames(frames)
          /\ frames' = frames]_vars

\* The rows of the unwrapped phase matrix.
UnwrappedRows == {phase_unwrapped.v[r].data : r \in 1..Len(phase_unwrapped.v)}

\* C20: phase unwrap along the tones is idempotent: unwrapping a row that
\* was already unwrapped returns the same row, and after one unwrap every
\* step between adjacent tones is at most pi in magnitude.
C20_UnwrapIdempotent ==
    phase_unwrapped # None =>
        \A u \in UnwrappedRows :
            /\ np_unwrap(u) = u
            /\ \A k \in 1..(Len(u) - 1) : np_abs(u[k + 1] - u[k]) <= PI

\* A row of three tones that the unwrap changed at two tones by different
\* amounts: the corrections accumulate.
C20_Witness ==
    /\ phase_unwrapped # None
    /\ LET u == phase_unwrapped.v[1].data
           p == Phase.v[1].data
       IN  /\ Len(u) = 3
           /\ u[2] # p[2]
           /\ u[3] - p[3] # u[2] - p[2]
           /\ u[3] - p[3] # 0

\* The amplitude matrix as rows of numbers.
AmpRows == [r \in 1..Len(Amp.v) |-> Amp.v[r].data]

RECURSIVE RowTotal(_, _)
RowTotal(row, k) == IF k = 0 THEN 0 ELSE RowTotal(row, k - 1) + row[k]

RECURSIVE ColTotal(_, _, _)
ColTotal(rows, r, k) == IF r = 0 THEN 0 ELSE ColTotal(rows, r - 1, k) + rows[r][k]

\* C21: for an N x K amplitude matrix, mean-per-tone is the vector of the K
\* column averages over all frames and mean-per-frame is the vector of the
\* N row averages over all tones; for the rows [[1,2,3],[4,5,6]] they are
\* [2.5, 3.5, 4.5] and [2.0, 5.0].
C21_MeansPerToneAndFrame ==
    (script = "csi_inspector" /\ MatrixBuilt) =>
        LET N == Len(AmpRows)
            K == Len(AmpRows[1])
        IN  /\ Len(mean_amp.v) = N
            /\ \A r \in 1..N :
                   IsFraction(mean_amp.v[r], RowTotal(AmpRows[r], K), K)
            /\ Len(mean_amp_tone.v) = K
            /\ \A k \in 1..K :
                   IsFraction(mean_amp_tone.v[k], ColTotal(AmpRows, N, k), N)
            /\ AmpRows = <<<<1, 2, 3>>, <<4, 5, 6>>>> =>
                   /\ IsFraction(mean_amp_tone.v[1], 5, 2)
                   /\ IsFraction(mean_amp_tone.v[2], 7, 2)
                   /\ IsFraction(mean_amp_tone.v[3], 9, 2)
                   /\ IsFraction(mean_amp.v[1], 2, 1)
                   /\ IsFraction(mean_amp.v[2], 5, 1)

\* The worked example: the matrix [[1,2,3],[4,5,6]] with its means taken.
C21_Witness ==
    /\ script = "csi_inspector"
    /\ MatrixBuilt
    /\ AmpRows = <<<<1, 2, 3>>, <<4, 5, 6>>>>
    /\ mean_amp # None
    /\ mean_amp_tone # None

\* Frame n carries the pair (tx, rx) as its Addr2 / Addr1.
CarriesPair(n, tx, rx) ==
    /\ TxBytes(n).tag = "list" /\ Len(TxBytes(n).v) >= 6
    /\ RxBytes(n).tag = "list" /\ Len(RxBytes(n).v) >= 6
    /\ mac_to_str(TxBytes(n)) = tx
    /\ mac_to_str(RxBytes(n)) = rx

\* C26: the transmitter / receiver identity csi_inspector writes to the
\* summary is a pair that occurs together as Addr2 / Addr1 of at least one
\* frame of the capture, or has an absent side: the by-count receiver and
\* the first-pair receiver are never combined, with the reported
\* transmitter, into a pair that no frame carries.
C26_ReportedPairIsCarried ==
    (script = "csi_inspector" /\ pc = "done" /\ outcome.what = "Success") =>
        \/ reported_tx_mac = None
        \/ reported_rx_mac = None
        \/ \E n \in 1..Len(frames) :
               CarriesPair(n, reported_tx_mac, reported_rx_mac)

\* C29: on every exit path of bfi_capture's main after set_monitor has begun
\* changing the adapter (a failing configuration command, no capture file,
\* an analysis error, normal completion), restore_managed has been run when
\* the process exits.
C29_RestoreOnEveryExit ==
    (bfi_pc = "exited" /\ set_monitor_cmds > 0) => restore_cmds = RestoreCmds

\* disable_wifi ran to its end before the script exited.
DisableWifiReturned ==
    /\ disable_cmds = DisableWifiCmds
    /\ pico_exit # "disable_wifi failed"

\* C30: on every exit path of the pipeline after disable_wifi has run (the
\* user cancels the channel dialog, NIC preparation fails, the capture is
\* interrupted, normal completion), the capture process has been terminated
\* and restore_wifi has run: Wi-Fi is never left disabled when the script
\* exits.
C30_WifiRestoredOnEveryExit ==
    (pico_pc = "exited" /\ DisableWifiReturned) =>
        /\ logger # "running"
        /\ restore_wifi_cmds = RestoreWifiCmds

\* camera.py is over, and it had opened its three devices.
CamOverAfterOpen == cam_pc = "exited" /\ cam_exit # "RuntimeError"

\* C25: once camera.py, capturing, has received SIGINT or SIGTERM (the
\* stop flag is set), the capture loop ends, all three capture devices are
\* released and the post-processing that writes the RGB video runs to
\* completion: when the process is over the video file is finalized.
C25_StopFinalizesVideo ==
    (STOP_REQUESTED /\ CamOverAfterOpen) =>
        /\ caps_open = {}
        /\ video = "finalized"

\* The text wait_for_log_pattern has read so far.
TextRead == SubSeq(bfi_log, 1, w_pos)

\* C24: wait_for_log_pattern misses no line, however the writer's output is
\* split across writes and whenever it is written: once the log holds a
\* line that matches one of the patterns and the watcher has read it, the
\* watcher has returned, and what it returns is the first matching line in
\* file order.
C24_WatcherMissesNoLine ==
    LET first == FirstMatch(w_patterns, splitlines(TextRead))
    IN  /\ (w_pc = "tail" /\ w_timeout = NoTimeout) => ~first.found
        /\ (w_pc = "returned" /\ w_result.found) => w_result = first

\* Signal number j went to the same child as number k, before it.
SentBefore(j, k) == j < k /\ sent[j].to = sent[k].to

\* C22: a child is stopped gracefully first and killed only after a fixed
\* grace period: no signal is sent to a child that has already exited,
\* SIGKILL is sent only when the child's grace period has fully elapsed and
\* it has still not exited, SIGKILL is never the first signal a child
\* receives, and the camera receives SIGINT before SIGTERM before SIGKILL.
C22_GracefulThenKill ==
    \A k \in 1..Len(sent) :
        /\ ~sent[k].exited
        /\ sent[k].sig = "SIGKILL" =>
              /\ sent[k].waited >= MaxTicks
              /\ \E j \in 1..Len(sent) :
                    SentBefore(j, k) /\ sent[j].sig = "SIGTERM"
        /\ (sent[k].sig = "SIGTERM" /\ sent[k].to = "cam") =>
              \E j \in 1..Len(sent) : SentBefore(j, k) /\ sent[j].sig = "SIGINT"

\* bfi_capture.py has been started and has not exited.
BfiRunning == bfi_pc \notin {"none", "exited"}

\* BFI has been terminated: it has exited or been sent SIGTERM.
BfiTerminated ==
    \/ bfi_pc = "exited"
    \/ \E k \in 1..Len(sent) : sent[k].to = "bfi" /\ sent[k].sig = "SIGTERM"

\* C23: the camera process is started only when the BFI capture process is
\* running and its start marker has been read from the BFI log; if the
\* start marker does not appear within the start timeout, the camera is
\* never started and BFI is terminated before the session ends.
C23_CameraAfterBfiStarted ==
    [][/\ (cam_pc = "none" /\ cam_pc' # "none") =>
              (start_line.found /\ BfiRunning)
       /\ (l_path' = "start timeout") => cam_pc' = "none"
       /\ (l_path' = "start timeout" /\ l_pc' = "done") => BfiTerminated']_vars

\* C27: once the camera has been started, if BFI exits for any reason the
\* launcher eventually requests the camera to stop and reaches the end of
\* the session.  The log no longer grows once BFI has exited, so the
\* launcher gets there only if, until the session has ended, it or its
\* log watcher always has a step to take.
C27_BfiExitEndsSession ==
    (cam_pc # "none" /\ bfi_pc = "exited" /\ l_pc # "done") =>
        ENABLED (NextLauncher \/ NextWatcher)

\* C28: when the session is reported as ended, on every path out of main's
\* try block, every child that was started has exited.
C28_ChildrenStoppedAtEnd ==
    l_pc = "done" =>
        /\ bfi_pc # "none" => bfi_pc = "exited"
        /\ cam_pc # "none" => cam_pc = "exited"

====
